---- MODULE Spec2Model ----
(***************************************************************************)
(* Disk-resident inverted index (index/inverted_index.py) and the query    *)
(* time searcher (retrieval/searcher.py).                                   *)
(*                                                                         *)
(* Strings are TLA+ strings; Python's str ordering (by code point) is      *)
(* computed on the code-point sequence CodePoints[s].  The word "U+0663"   *)
(* stands for the one-character string ARABIC-INDIC DIGIT THREE, which the *)
(* tokenizer keeps because \d matches any Unicode decimal digit.           *)
(***************************************************************************)
EXTENDS Integers, Sequences, FiniteSets, TLC

\* ------------------------------------------------------------------ bounds
MaxDocs == 2
MaxFlushCount == 3
MaxPartitionSize == 3

\* ------------------------------------------------------- strings and order
Words == {"an", "ant", "bat", "bee", "cat", "cats", "zoo", "U+0663"}

CodePoints ==
  [w \in Words |->
     CASE w = "an"     -> <<97, 110>>
       [] w = "ant"    -> <<97, 110, 116>>
       [] w = "bat"    -> <<98, 97, 116>>
       [] w = "bee"    -> <<98, 101, 101>>
       [] w = "cat"    -> <<99, 97, 116>>
       [] w = "cats"   -> <<99, 97, 116, 115>>
       [] w = "zoo"    -> <<122, 111, 111>>
       [] w = "U+0663" -> <<1635>>]

\* ".bin"
BinSuffix == <<46, 98, 105, 110>>

\* Python str "<": lexicographic on code points, a proper prefix is smaller.
RECURSIVE LexLess(_, _)
LexLess(s, t) ==
  IF t = <<>> THEN FALSE
  ELSE IF s = <<>> THEN TRUE
  ELSE IF Head(s) # Head(t) THEN Head(s) < Head(t)
  ELSE LexLess(Tail(s), Tail(t))

StrLess(a, b) == LexLess(CodePoints[a], CodePoints[b])

MinToken(S) == CHOOSE m \in S : \A x \in S : x = m \/ StrLess(m, x)

\* Variant of SortedTokens that yields the strings in descending order.
RECURSIVE DescendingTokens(_)
DescendingTokens(S) ==
  IF S = {} THEN <<>>
  ELSE LET m == CHOOSE y \in S : \A x \in S : x = y \/ StrLess(x, y)
       IN <<m>> \o DescendingTokens(S \ {m})

\* sorted(keys): ascending sequence of the strings of S.
RECURSIVE SortedTokens(_)
SortedTokens(S) ==
  IF S = {} THEN <<>>
  ELSE LET m == MinToken(S) IN <<m>> \o SortedTokens(S \ {m})

\* len(ch.encode('utf-8')) for one code point.
Utf8Len(c) == IF c < 128 THEN 1 ELSE IF c < 2048 THEN 2 ELSE IF c < 65536 THEN 3 ELSE 4

RECURSIVE Utf8Size(_)
Utf8Size(cps) == IF cps = <<>> THEN 0 ELSE Utf8Len(Head(cps)) + Utf8Size(Tail(cps))

\* Number of whole characters covered by the first n bytes of the UTF-8
\* encoding of cps, or -1 when byte n falls inside a character.
RECURSIVE CharsInBytes(_, _)
CharsInBytes(cps, n) ==
  IF n = 0 THEN 0
  ELSE IF cps = <<>> THEN 0
  ELSE IF Utf8Len(Head(cps)) > n THEN -1
  ELSE LET r == CharsInBytes(Tail(cps), n - Utf8Len(Head(cps)))
       IN IF r = -1 THEN -1 ELSE r + 1

\* ------------------------------------------------------------ data model
ExplicitTags == <<"h1", "h2", "h3", "title", "b", "strong">>   \* _WEIGHTED_TAGS
TagKeys == {"h1", "h2", "h3", "title", "b", "strong", "other"}

EmptyEntry == [df |-> 0, postings |-> <<>>]                    \* TokenEntry()

\* Word(token).lemmatize() on the model vocabulary.
Lemmatize(w) == IF w = "cats" THEN "cat" ELSE w

\* A page file: url and content.  content is the HTML body as a sequence of
\* text pieces, each the direct text of one element: tag "other" is text
\* outside every weighted tag.  container names an enclosing element whose
\* strings soup.get_text leaves out (<template>), "" if there is none.
Seg(tag, word) == [tag |-> tag, word |-> word, container |-> ""]

\* <template><tag>word</tag></template>: find_all(tag) reaches the element,
\* get_text does not yield its string.
TemplateSeg(tag, word) == [tag |-> tag, word |-> word, container |-> "template"]

PageCatalogue ==
  { [url |-> "u1", content |-> <<Seg("h1", "ant")>>],
    [url |-> "u2", content |-> <<Seg("other", "bee"), Seg("other", "ant")>>],
    [url |-> "u3", content |-> <<Seg("other", "cats"), Seg("b", "bee"), Seg("other", "cat")>>],
    [url |-> "u4", content |-> <<Seg("other", "ant"), Seg("other", "U+0663")>>],
    [url |-> "u5", content |-> <<>>] }


\* -------------------------------------------------------------- tokenizer
RECURSIVE CountIn(_, _)
CountIn(seq, x) ==
  IF seq = <<>> THEN 0
  ELSE (IF Head(seq) = x THEN 1 ELSE 0) + CountIn(Tail(seq), x)

\* Keys of a dict in insertion order: first occurrences of seq.
RECURSIVE Dedup(_, _)
Dedup(seq, seen) ==
  IF seq = <<>> THEN <<>>
  ELSE IF Head(seq) \in seen THEN Dedup(Tail(seq), seen)
  ELSE <<Head(seq)>> \o Dedup(Tail(seq), seen \cup {Head(seq)})

\* Lemmatized tokens of the pieces of content that lie in an element `tag`.
RECURSIVE TagTokens(_, _)
TagTokens(content, tag) ==
  IF content = <<>> THEN <<>>
  ELSE (IF Head(content).tag = tag THEN <<Lemmatize(Head(content).word)>> ELSE <<>>)
       \o TagTokens(Tail(content), tag)

\* Lemmatized tokens of soup.get_text(' ').
TextTokens(content) ==
  LET InText(s) == s.container = ""
      text == SelectSeq(content, InText)
  IN [i \in 1..Len(text) |-> Lemmatize(text[i].word)]

RECURSIVE ExplicitTokens(_, _)
ExplicitTokens(content, tags) ==
  IF tags = <<>> THEN <<>>
  ELSE TagTokens(content, Head(tags)) \o ExplicitTokens(content, Tail(tags))

RECURSIVE SumExplicit(_, _, _)
SumExplicit(content, tags, token) ==
  IF tags = <<>> THEN 0
  ELSE CountIn(TagTokens(content, Head(tags)), token) + SumExplicit(content, Tail(tags), token)

\* The frequency dict of a token: the weighted-tag counts, and "other" set
\* by the loop over total_frequencies, which a token that get_text does not
\* yield never enters.
TagFrequencies(content, token) ==
  [k \in TagKeys |->
     IF k = "other"
     THEN IF CountIn(TextTokens(content), token) > 0
          THEN CountIn(TextTokens(content), token) - SumExplicit(content, ExplicitTags, token)
          ELSE 0
     ELSE CountIn(TagTokens(content, k), token)]

\* raise Exception('Negative other score: ...'): some token of the text has
\* more occurrences in weighted tags than in the text.
NegativeOther(content) ==
  \E i \in 1..Len(TextTokens(content)) :
    SumExplicit(content, ExplicitTags, TextTokens(content)[i])
      > CountIn(TextTokens(content), TextTokens(content)[i])

\* tokenize_JSON_file_with_tags(...).items(): (token, tag_freqs) pairs in dict
\* insertion order: tokens met in the weighted-tag pass first, then the
\* remaining tokens in text order.
tokenize_JSON_file_with_tags(content) ==
  LET keys == Dedup(ExplicitTokens(content, ExplicitTags) \o TextTokens(content), {})
  IN [i \in 1..Len(keys) |->
        [token |-> keys[i], tag_freqs |-> TagFrequencies(content, keys[i])]]

SumTagFreqs(tf) ==
  tf["h1"] + tf["h2"] + tf["h3"] + tf["title"] + tf["b"] + tf["strong"] + tf["other"]

\* ------------------------------------------------------------ path mapper
\* Paths are the discovery positions 1..n of the .json files under the root.
\* The body of the loop over the files for the file at position file_id:
\* the url is recorded unless it is empty or already known.
MapUrl(docs, file_id, url_to_id) ==
  LET url == docs[file_id].url
  IN IF url # "" /\ url \notin DOMAIN url_to_id
     THEN url_to_id @@ (url :> file_id)
     ELSE url_to_id

\* w, with v evaluated first: the state a loop has reached is computed
\* before the loop goes on.
Then(v, w) == IF v = v THEN w ELSE w

\* The loop over the files at positions first..last, in order (the range is
\* halved to bound the depth of evaluation).
RECURSIVE ConstructUrlRange(_, _, _, _)
ConstructUrlRange(docs, first, last, url_to_id) ==
  IF first > last THEN url_to_id
  ELSE IF first = last THEN MapUrl(docs, first, url_to_id)
  ELSE LET mid == (first + last) \div 2
           done == ConstructUrlRange(docs, first, mid, url_to_id)
       IN Then(done, ConstructUrlRange(docs, mid + 1, last, done))

ConstructUrlToId(docs, file_id, url_to_id) ==
  ConstructUrlRange(docs, file_id, Len(docs), url_to_id)

ConstructPathToId(docs) == [p \in 1..Len(docs) |-> p]

\* ----------------------------------------------------------------- state
VARIABLES
  corpus,                 \* the .json files under root_dir, in discovery order
  postings_flush_count,   \* constructor argument
  partition_posting_size, \* constructor argument
  path_to_id, url_to_id,  \* PathMapper
  buf,                    \* _buf: token -> TokenEntry
  postings_count,         \* _postings_count
  partition_count,        \* _partition_count
  page_count,             \* _page_count
  partitions,             \* _partitions: sequence of file paths
  simhashes,              \* _simhashes
  token_ranges,           \* _token_ranges
  files,                  \* the index directory: path -> sequence of records
  index2,                 \* the InvertedIndex2 object's fields
  index0,                 \* the fields of an InvertedIndex of src/inverted_index.py
  open_streams,           \* paths of the files held open by a stream
  args,                   \* constructor arguments persist and load_existing
  out_dir,                \* _out_dir: is the attribute assigned, does the directory exist,
                          \* the name of the index it ends in
  appdata,                \* files of APP_DATA_DIR beside the index: saved mapper, saved searcher
  first_build,            \* copy a caller took of the directory of a built index
  next_page,              \* position of build()'s loop over the pages
  pc,                     \* phase of the constructor / object
  error,                  \* exception that ended the constructor, "" if none
  document_vectors,       \* Searcher._document_vectors
  result                  \* outcome of the latest read operation

vars == <<corpus, postings_flush_count, partition_posting_size, path_to_id, url_to_id,
          buf, postings_count, partition_count, page_count, partitions, simhashes,
          token_ranges, files, next_page, pc, error, document_vectors, result, index2, index0, open_streams,
          args, out_dir, appdata, first_build>>

NoResult == [op |-> "none"]

\* No copy of an index directory has been taken.
NoBuild == [op |-> "none"]

\* persist and load_existing as __init__ defaults them.
DefaultArgs == [persist |-> FALSE, load_existing |-> FALSE]

\* A file that does not exist.
NoFile == [exists |-> FALSE]

\* The file PathMapper._save writes: json.dump of path_to_id and url_to_id.
MapperFile(p2i, u2i) == [exists |-> TRUE, path_to_id |-> p2i, url_to_id |-> u2i]

\* The file Searcher._save writes: json.dump of the document vectors.
SearcherFile(vec) == [exists |-> TRUE, document_vectors |-> vec]

\* APP_DATA_DIR without a saved mapper and without a saved searcher.
NoAppData == [mapper |-> NoFile, searcher |-> NoFile]

\* The constructor arguments of an index that gets built: load_existing may
\* be set while no index directory exists.
BuildingArgs == [persist : {FALSE}, load_existing : BOOLEAN]

\* Names of an index, as code points: 'idx' and 'index_main'.
IdxName == <<105, 100, 120>>
IndexMainName == <<105, 110, 100, 101, 120, 95, 109, 97, 105, 110>>

\* _out_dir once build() has made the directory.
BuildingOutDir == [assigned |-> TRUE, exists |-> TRUE, name |-> IdxName]

\* No InvertedIndex2 object has been constructed.
NoIndex2 == [max_in_memory_postings |-> 0]

\* No InvertedIndex object of src/inverted_index.py has been constructed.
NoIndex0 == [disk_dir |-> "none"]

\* File paths inside the index directory.
NumStr == <<"0", "1", "2", "3", "4", "5", "6", "7", "8", "9", "10", "11", "12", "13",
            "14", "15", "16", "17", "18", "19", "20">>
RunPath(n) == [stem |-> "partition", key |-> NumStr[n + 1]]   \* partition_<N>.bin
PartitionPath(token) == [stem |-> "partition", key |-> token] \* partition_<token>.bin
merged_file == [stem |-> "merged", key |-> ""]                \* merged.bin

get_id(p2i, page) == IF page \in DOMAIN p2i THEN p2i[page] ELSE -1

SeqRange(seq) == {seq[i] : i \in 1..Len(seq)}

\* compute_word_frequencies(...) as a map word -> count.
WordFrequencies(words) == [w \in SeqRange(words) |-> CountIn(words, w)]

\* Words of soup.get_text(' ') as tokenize() yields them (not lemmatized).
PlainWords(content) ==
  LET InText(s) == s.container = ""
      text == SelectSeq(content, InText)
  IN [i \in 1..Len(text) |-> text[i].word]

\* The document vectors of a searcher file that is on disk before the code
\* runs: the word frequencies of the text of every page, one vector per
\* document id.  (No Searcher of this code gets to write the file: the loop
\* of __init__ that computes the vectors fails on its first statement.)
SavedDocumentVectors(docs) ==
  [doc_id \in 1..Len(docs) |-> WordFrequencies(PlainWords(docs[doc_id].content))]

\* APP_DATA_DIR once the PathMapper of the root directory has saved its
\* mapping, with or without a searcher file for the root.
BuiltAppData(docs) ==
  {[mapper |-> MapperFile(ConstructPathToId(docs), ConstructUrlToId(docs, 1, <<>>)),
    searcher |-> file] : file \in {NoFile, SearcherFile(SavedDocumentVectors(docs))}}

RECURSIVE DocSeqs(_)
DocSeqs(n) ==
  IF n = 0 THEN {<<>>}
  ELSE LET shorter == DocSeqs(n - 1)
       IN shorter \cup {Append(s, d) : s \in {x \in shorter : Len(x) = n - 1}, d \in PageCatalogue}

Init ==
  /\ corpus \in DocSeqs(MaxDocs)
  /\ postings_flush_count \in 1..MaxFlushCount
  /\ partition_posting_size \in 1..MaxPartitionSize
  /\ path_to_id = ConstructPathToId(corpus)
  /\ url_to_id = ConstructUrlToId(corpus, 1, <<>>)
  /\ buf = <<>>
  /\ postings_count = 0
  /\ partition_count = 0
  /\ page_count = 0
  /\ partitions = <<>>
  /\ simhashes = {}
  /\ token_ranges = <<>>
  /\ files = <<>>
  /\ next_page = 1
  /\ pc = "build"
  /\ error = ""
  /\ document_vectors = [keys |-> "int", vec |-> <<>>]
  /\ result = NoResult
  /\ index2 = NoIndex2
  /\ open_streams = {}
  /\ index0 = NoIndex0
  /\ args \in BuildingArgs
  /\ appdata \in BuiltAppData(corpus)
  /\ out_dir = BuildingOutDir
  /\ first_build = NoBuild


\* ---------------------------------------------------- duplicate detection
\* tokenize(html) on the raw HTML string: tag names are tokens too.
RECURSIVE RawTokens(_)
RawTokens(content) ==
  IF content = <<>> THEN <<>>
  ELSE LET s == Head(content)
           inner == IF s.tag = "other" THEN <<s.word>> ELSE <<s.tag, s.word, s.tag>>
       IN (IF s.container = "" THEN inner ELSE <<s.container>> \o inner \o <<s.container>>)
          \o RawTokens(Tail(content))

HashedStrings == {"ant", "bee", "cat", "cats", "h1", "b", "U+0663", "template"}

\* _md5(token): the 16 digest bytes.  A non-ASCII character is hashed as "?"
\* (encode('ascii', errors = 'replace')).
Md5 ==
  [w \in HashedStrings |->
     CASE w = "ant" -> <<99, 176, 126, 130, 139, 240, 22, 233, 118, 255, 149, 214, 238, 7, 161, 5>>
       [] w = "bee" -> <<157, 253, 112, 253, 241, 90, 60, 177, 234, 0, 215, 121, 154, 198, 101, 27>>
       [] w = "cat" -> <<208, 119, 242, 68, 222, 248, 167, 14, 94, 167, 88, 189, 131, 82, 252, 216>>
       [] w = "cats" -> <<8, 50, 193, 32, 45, 168, 211, 130, 49, 142, 50, 154, 124, 19, 62, 160>>
       [] w = "h1" -> <<52, 107, 129, 163, 46, 112, 7, 236, 202, 223, 96, 37, 43, 181, 153, 240>>
       [] w = "b" -> <<146, 235, 95, 254, 230, 174, 47, 236, 58, 215, 28, 119, 117, 49, 87, 143>>
       [] w = "U+0663" -> <<209, 69, 123, 114, 195, 251, 50, 58, 38, 113, 18, 90, 239, 62, 171, 93>>
       [] w = "template" -> <<102, 246, 24, 27, 203, 76, 255, 76, 211, 143, 188, 128, 74, 3, 109, 182>>]

Pow2 == <<1, 2, 4, 8, 16, 32, 64, 128>>

\* mask & int.from_bytes(hashed_string) for mask = 1 << j.
HashBit(w, j) == (Md5[w][16 - (j \div 8)] \div Pow2[(j % 8) + 1]) % 2

RECURSIVE WeightedBitSum(_, _, _)
WeightedBitSum(keys, toks, j) ==
  IF keys = <<>> THEN 0
  ELSE CountIn(toks, Head(keys)) * (IF HashBit(Head(keys), j) = 0 THEN -1 ELSE 1)
       + WeightedBitSum(Tail(keys), toks, j)

\* simhash(phrase) as the sequence of its bits, most significant first;
\* the empty sequence when the phrase has no token (hash_size = 0).
simhash(content) ==
  LET toks == RawTokens(content)
      keys == Dedup(toks, {})
  IN IF keys = <<>> THEN <<>>
     ELSE [i \in 1..128 |-> IF WeightedBitSum(keys, toks, i - 1) <= 0 THEN 0 ELSE 1]

distance(h1, h2) == Cardinality({i \in 1..Len(h1) : h1[i] # h2[i]})

\* sim >= _SIMILARITY_THRESHOLD with sim = 1 - distance / (len * 8), len = 16.
SimilarEnough(h1, h2) == (128 - distance(h1, h2)) * 100 >= 95 * 128

\* _is_similar(page)
_is_similar(hashes, content) ==
  LET hashed_doc == simhash(content)
  IN \/ hashed_doc \in hashes
     \/ \E explored_hash \in hashes : SimilarEnough(hashed_doc, explored_hash)

\* --------------------------------------------------------- record format
FileContent(fs, path) == IF path \in DOMAIN fs THEN fs[path] ELSE <<>>

WriteFile(fs, path, content) ==
  [p \in DOMAIN fs \cup {path} |-> IF p = path THEN content ELSE fs[p]]

\* Variant of DeleteFiles that leaves every file in place.
KeepFiles(fs, paths) == fs

DeleteFiles(fs, paths) == [p \in DOMAIN fs \ paths |-> fs[p]]

\* One record as _flush_idx_data writes it: token_len is len(token), the
\* number of characters; the token bytes are token.encode('utf-8').
WrittenRecord(token, token_entry) ==
  [token_len |-> Len(CodePoints[token]),
   token     |-> token,
   df        |-> token_entry.df,
   postings  |-> token_entry.postings]

RECURSIVE WrittenRecords(_, _)
WrittenRecords(tokens, data) ==
  IF tokens = <<>> THEN <<>>
  ELSE <<WrittenRecord(Head(tokens), data[Head(tokens)])>> \o WrittenRecords(Tail(tokens), data)

\* _flush_idx_data(disk, data): append the entries in sorted token order
\* (mode 'ab+' creates the file).  The caller's dict is cleared.
_flush_idx_data(fs, disk, data) ==
  WriteFile(fs, disk, FileContent(fs, disk) \o WrittenRecords(SortedTokens(DOMAIN data), data))

Stop == [stop |-> TRUE]

\* A record that ends the file cut short.  The cut falls inside field `cut`
\* ("token_len", "token", "entry_len" or "entry"); of a cut payload the
\* first `kept` protobuf fields are whole (df, when it is not 0, then one
\* field per posting), and `mid` tells whether bytes of the next field follow
\* them.
TruncatedRecord(record, cut, kept, mid) ==
  record @@ [cut |-> cut, kept |-> kept, mid |-> mid]

\* TokenEntry.ParseFromString on a cut payload: a field cut in the middle is
\* a DecodeError; a payload cut between two fields is a well-formed message
\* holding the fields before the cut.
ParseFromString(r) ==
  LET df_fields == IF r.df = 0 THEN 0 ELSE 1
  IN IF r.mid THEN [raised |-> "DecodeError"]
     ELSE [raised |-> "",
           df |-> IF r.kept >= 1 THEN r.df ELSE 0,
           postings |-> SubSeq(r.postings, 1,
                               IF r.kept > df_fields THEN r.kept - df_fields ELSE 0)]

\* _next_entry(f) with the stream at record number pos of content.
\* The reader takes token_len BYTES for the token.  When that is fewer than
\* the token's UTF-8 bytes, either the cut falls inside a character and
\* decode() raises, or the leftover token bytes are read as the low bytes of
\* entry_len, the (too long) payload read then starts with the high zero
\* bytes of the real entry_len, and ParseFromString rejects field number 0.
\* Both end in the bare except: StopIteration.  In a record cut short a short
\* read of token_len or entry_len makes struct.unpack raise, a short token is
\* followed by an empty read of entry_len, and a short payload is parsed.
_next_entry(content, pos) ==
  IF pos > Len(content) THEN Stop
  ELSE LET r == content[pos]
           cps == CodePoints[r.token]
           read == CharsInBytes(cps, r.token_len)
           leftover == Utf8Size(cps) - r.token_len
       IN IF "cut" \in DOMAIN r /\ r.cut # "entry" THEN Stop
          ELSE IF read = -1 THEN Stop
          ELSE IF leftover > 0 THEN Stop
          ELSE IF "cut" \in DOMAIN r
          THEN IF ParseFromString(r).raised # "" THEN Stop
               ELSE [stop |-> FALSE, token |-> r.token,
                     token_entry |-> [df |-> ParseFromString(r).df,
                                      postings |-> ParseFromString(r).postings],
                     pos |-> pos + 1]
          ELSE [stop |-> FALSE, token |-> r.token,
                token_entry |-> [df |-> r.df, postings |-> r.postings], pos |-> pos + 1]


\* ---------------------------------------------------------------- ingest
MapPut(m, k, v) == [x \in DOMAIN m \cup {k} |-> IF x = k THEN v ELSE m[x]]

EmptyMap == <<>>

\* flush(): the buffer goes to a new run file partition_<N>.bin.
\* st is the builder state the call works on.
flush(st) ==
  LET disk == RunPath(st.partition_count)
  IN [st EXCEPT !.partitions = Append(st.partitions, disk),
                !.partition_count = st.partition_count + 1,
                !.files = _flush_idx_data(st.files, disk, st.buf),
                !.buf = EmptyMap]

\* Variant of ThresholdReached that waits for the count to pass the limit.
ThresholdPassed(count, limit) == count > limit

\* Condition of _add_page under which the buffer is flushed.
ThresholdReached(count, limit) == count >= limit

\* Variant of PostingError for a message whose doc_id field is signed.
NoPostingError(doc_id) == ""

\* Posting(doc_id = ..., ...): doc_id is a uint64 field of the message, so a
\* negative value makes the constructor raise; "" if the message is built.
PostingError(doc_id) == IF doc_id < 0 THEN "ValueError" ELSE ""

\* The loop of _add_page over the tokenizer's items.  self._buf[token] is
\* evaluated before the Posting is constructed, so a constructor that
\* raises leaves an empty entry for the token in the buffer; the loop ends
\* there and st.raised names the exception.
RECURSIVE AddTokens(_, _, _, _)
AddTokens(items, doc_id, limit, st) ==
  IF items = <<>> THEN st
  ELSE LET token == Head(items).token
           tag_freqs == Head(items).tag_freqs
           old == IF token \in DOMAIN st.buf THEN st.buf[token] ELSE EmptyEntry
           posting == [doc_id |-> doc_id,
                       frequency |-> SumTagFreqs(tag_freqs),
                       tag_frequencies |-> tag_freqs]
           added == [st EXCEPT
                       !.buf = MapPut(st.buf, token,
                                 [df |-> old.df + 1, postings |-> Append(old.postings, posting)]),
                       !.postings_count = st.postings_count + 1]
           next == IF ThresholdReached(added.postings_count, limit)
                   THEN flush([added EXCEPT !.postings_count = 0])
                   ELSE added
       IN IF PostingError(doc_id) # ""
          THEN [st EXCEPT !.buf = MapPut(st.buf, token, old),
                          !.raised = PostingError(doc_id)]
          ELSE AddTokens(Tail(items), doc_id, limit, next)

BuilderState ==
  [buf |-> buf, postings_count |-> postings_count, partition_count |-> partition_count,
   partitions |-> partitions, files |-> files, raised |-> ""]

\* _add_page(page); an exception of the loop leaves build() and the
\* constructor, after the pages before it were added.
_add_page(page) ==
  LET doc_id == get_id(path_to_id, page)
      st == AddTokens(tokenize_JSON_file_with_tags(corpus[page].content), doc_id,
                      postings_flush_count, BuilderState)
  IN /\ page_count' = page_count + 1
     /\ buf' = st.buf
     /\ postings_count' = st.postings_count
     /\ partition_count' = st.partition_count
     /\ partitions' = st.partitions
     /\ files' = st.files
     /\ error' = IF st.raised = "" THEN error ELSE st.raised
     /\ pc' = IF st.raised = "" THEN pc ELSE "failed"
     /\ next_page' = IF st.raised = "" THEN page + 1 ELSE page

\* The exception json.load raises in _is_similar for a file that is not
\* UTF-8 text, "" if the page can be read.
ReadError(file) ==
  IF "json" \in DOMAIN file /\ file.json = "undecodable" THEN "UnicodeDecodeError" ELSE ""

\* One iteration of build()'s loop over the pages of root_dir.
BuildPage ==
  /\ pc = "build"
  /\ next_page <= Len(corpus)
  /\ IF ReadError(corpus[next_page]) # ""
     THEN /\ pc' = "failed"
          /\ error' = ReadError(corpus[next_page])
          /\ UNCHANGED <<page_count, buf, postings_count, partition_count, partitions, files,
                         next_page>>
     ELSE IF _is_similar(simhashes, corpus[next_page].content)
     THEN /\ next_page' = next_page + 1
          /\ UNCHANGED <<page_count, buf, postings_count, partition_count, partitions, files,
                         pc, error>>
     ELSE IF NegativeOther(corpus[next_page].content)
     THEN /\ page_count' = page_count + 1
          /\ pc' = "failed"
          /\ error' = "Exception"
          /\ UNCHANGED <<buf, postings_count, partition_count, partitions, files, next_page>>
     ELSE _add_page(next_page)
  /\ UNCHANGED <<first_build, args, appdata, out_dir, index2, index0, open_streams, corpus, postings_flush_count, partition_posting_size, path_to_id, url_to_id,
                 simhashes, token_ranges, document_vectors, result>>

\* self.flush() of __init__, after build() returned.
FinalFlush ==
  /\ pc = "build"
  /\ next_page > Len(corpus)
  /\ LET st == flush(BuilderState)
     IN /\ buf' = st.buf
        /\ partition_count' = st.partition_count
        /\ partitions' = st.partitions
        /\ files' = st.files
  /\ pc' = "merge"
  /\ UNCHANGED <<first_build, args, appdata, out_dir, index2, index0, open_streams, corpus, postings_flush_count, partition_posting_size, path_to_id, url_to_id,
                 postings_count, page_count, simhashes, token_ranges, next_page, error,
                 document_vectors, result>>

\* ----------------------------------------------------------------- merge
NoToken == "None"

\* protobuf MergeFrom: a singular field set in the source overwrites the
\* destination's, a repeated field is appended.
MergeFrom(dst, src) ==
  [df |-> IF src.df # 0 THEN src.df ELSE dst.df,
   postings |-> dst.postings \o src.postings]

\* heapq order on (token, i, token_entry) tuples.
HeapLess(x, y) == StrLess(x.token, y.token) \/ (x.token = y.token /\ x.idx < y.idx)
HeapMin(pq) == CHOOSE m \in pq : \A x \in pq : x = m \/ HeapLess(m, x)

\* Read the next entry of stream idx and push it on the heap.
PushNext(ms, fs, streams, idx) ==
  LET e == _next_entry(FileContent(fs, streams[idx]), ms.pos[idx])
  IN IF e.stop THEN ms
     ELSE [ms EXCEPT !.pq = ms.pq \cup {[token |-> e.token, idx |-> idx,
                                         token_entry |-> e.token_entry]},
                     !.pos[idx] = e.pos]

RECURSIVE SeedHeap(_, _, _, _)
SeedHeap(ms, fs, streams, i) ==
  IF i > Len(streams) THEN ms
  ELSE SeedHeap(PushNext(ms, fs, streams, i), fs, streams, i + 1)

BatchDict(batch) ==
  [t \in {batch[i].token : i \in 1..Len(batch)} |->
     LET i == CHOOSE j \in 1..Len(batch) :
                 batch[j].token = t /\ \A k \in (j + 1)..Len(batch) : batch[k].token # t
     IN batch[i].token_entry]

\* Variant of ClosedEntries that drains the whole batch.
AllEntries(batch, last_token) == batch

\* The entries a full batch hands to the writer: those whose token is not
\* the one popped last.
ClosedEntries(batch, last_token) ==
  LET IsClosed(b) == b.token # last_token
  IN SelectSeq(batch, IsClosed)

\* The body of "while pq" in _merge.
MergeIteration(ms, fs, streams, limit) ==
  LET top == HeapMin(ms.pq)
      popped == [ms EXCEPT !.pq = ms.pq \ {top}]
      n == Len(ms.batch)
      merged == IF ms.last_token = top.token
                THEN [popped EXCEPT
                        !.batch[n].token_entry =
                           MergeFrom([ms.batch[n].token_entry EXCEPT
                                        !.df = ms.batch[n].token_entry.df + top.token_entry.df],
                                     top.token_entry)]
                ELSE [popped EXCEPT
                        !.batch = Append(ms.batch, [token |-> top.token,
                                                    token_entry |-> top.token_entry]),
                        !.last_token = top.token]
      pushed == PushNext(merged, fs, streams, top.idx)
      IsOpen(b) == b.token = pushed.last_token
      d == BatchDict(ClosedEntries(pushed.batch, pushed.last_token))
  IN IF Len(pushed.batch) >= limit
     THEN [pushed EXCEPT
             !.batch = SelectSeq(pushed.batch, IsOpen),
             !.out = IF DOMAIN d # {} THEN pushed.out \o WrittenRecords(SortedTokens(DOMAIN d), d)
                     ELSE pushed.out,
             !.wrote = pushed.wrote \/ DOMAIN d # {}]
     ELSE pushed

RECURSIVE MergeLoop(_, _, _, _)
MergeLoop(ms, fs, streams, limit) ==
  IF ms.pq = {} THEN ms
  ELSE MergeLoop(MergeIteration(ms, fs, streams, limit), fs, streams, limit)

\* _merge(): the records appended to merged.bin (out) and whether the file
\* was opened for writing at all (wrote).
MergeResult(fs, streams, limit) ==
  LET ms0 == [pq |-> {}, pos |-> [i \in 1..Len(streams) |-> 1], batch |-> <<>>,
              last_token |-> NoToken, out |-> <<>>, wrote |-> FALSE]
      ms == MergeLoop(SeedHeap(ms0, fs, streams, 1), fs, streams, limit)
      d == BatchDict(ms.batch)
  IN IF ms.batch # <<>>
     THEN [out |-> ms.out \o WrittenRecords(SortedTokens(DOMAIN d), d), wrote |-> TRUE]
     ELSE [out |-> ms.out, wrote |-> ms.wrote]

_merge ==
  /\ pc = "merge"
  /\ LET m == MergeResult(files, partitions, postings_flush_count)
         kept == DeleteFiles(files, SeqRange(partitions))
     IN files' = IF m.wrote THEN WriteFile(kept, merged_file, FileContent(files, merged_file) \o m.out)
                 ELSE kept
  /\ partitions' = <<merged_file>>
  /\ partition_count' = 0
  /\ pc' = "partition"
  /\ UNCHANGED <<first_build, args, appdata, out_dir, index2, index0, open_streams, corpus, postings_flush_count, partition_posting_size, path_to_id, url_to_id,
                 buf, postings_count, page_count, simhashes, token_ranges, next_page,
                 error, document_vectors, result>>


\* ------------------------------------------------------------- partition
PostingTotal(entry) == Len(entry.postings)

\* Variant of WritePartition that leaves the written entries in the buffer.
WritePartitionKeeping(ps) ==
  IF DOMAIN ps.buf = {} THEN [ps EXCEPT !.raised = "IndexError"]
  ELSE LET path == PartitionPath(SortedTokens(DOMAIN ps.buf)[1])
       IN [ps EXCEPT !.fs = _flush_idx_data(ps.fs, path, ps.buf),
                     !.parts = Append(ps.parts, path),
                     !.count = 0]

\* The "finally" block of _partition: write the buffer as partition_<min>.bin.
\* sorted(keys)[0] raises IndexError on an empty buffer.
WritePartition(ps) ==
  IF DOMAIN ps.buf = {} THEN [ps EXCEPT !.raised = "IndexError"]
  ELSE LET path == PartitionPath(SortedTokens(DOMAIN ps.buf)[1])
       IN [ps EXCEPT !.fs = _flush_idx_data(ps.fs, path, ps.buf),
                     !.buf = EmptyMap,
                     !.parts = Append(ps.parts, path),
                     !.count = 0]

\* The nested loops of _partition over the open merged file.
\* Variant of UnderSize that lets a buffer of exactly the size go on.
UpToSize(count, size) == count <= size

\* Condition of the inner loop of _partition: the buffer takes another entry.
UnderSize(count, size) == count < size

RECURSIVE PartitionLoop(_, _, _)
PartitionLoop(ps, content, size) ==
  IF UnderSize(ps.count, size)
  THEN LET e == _next_entry(content, ps.pos)
       IN IF e.stop
          THEN WritePartition(ps)                       \* except: break; finally
          ELSE PartitionLoop([ps EXCEPT !.buf = MapPut(ps.buf, e.token, e.token_entry),
                                        !.count = ps.count + PostingTotal(e.token_entry),
                                        !.pos = e.pos],
                             content, size)
  ELSE LET w == WritePartition(ps)                      \* finally, loop again
       IN IF w.raised # "" THEN w ELSE PartitionLoop(w, content, size)

RECURSIVE RemoveFirst(_, _)
RemoveFirst(seq, x) ==
  IF seq = <<>> THEN <<>>
  ELSE IF Head(seq) = x THEN Tail(seq)
  ELSE <<Head(seq)>> \o RemoveFirst(Tail(seq), x)

_partition ==
  /\ pc = "partition"
  /\ LET merged == partitions[1]
     IN IF merged \notin DOMAIN files
        THEN /\ postings_count' = 0
             /\ pc' = "failed"
             /\ error' = "FileNotFoundError"
             /\ UNCHANGED <<buf, partitions, files>>
        ELSE LET ps == PartitionLoop([pos |-> 1, buf |-> buf, count |-> 0, parts |-> partitions,
                                      fs |-> files, raised |-> ""],
                                     files[merged], partition_posting_size)
             IN IF ps.raised # ""
                THEN /\ postings_count' = ps.count
                     /\ buf' = ps.buf
                     /\ partitions' = ps.parts
                     /\ files' = ps.fs
                     /\ pc' = "failed"
                     /\ error' = ps.raised
                ELSE /\ postings_count' = ps.count
                     /\ buf' = ps.buf
                     /\ partitions' = RemoveFirst(ps.parts, merged)
                     /\ files' = DeleteFiles(ps.fs, {merged})
                     /\ pc' = "ranges"
                     /\ error' = ""
  /\ UNCHANGED <<first_build, args, appdata, out_dir, index2, index0, open_streams, corpus, postings_flush_count, partition_posting_size, path_to_id, url_to_id,
                 partition_count, page_count, simhashes, token_ranges, next_page,
                 document_vectors, result>>

\* str(path) of a file of the index directory, from the application
\* directory on: CS121_A3/indexes/<name>/<file>.bin, the file being
\* partition_<token>, partition_<N> or merged.
PathText(path, name) ==
  LET n == CHOOSE k \in 0..(Len(NumStr) - 1) : NumStr[k + 1] = path.key
      digits == IF n < 10 THEN <<48 + n>> ELSE <<48 + (n \div 10), 48 + (n % 10)>>
      key == IF path.key \in DOMAIN CodePoints THEN CodePoints[path.key] ELSE digits
      file == IF path = merged_file THEN <<109, 101, 114, 103, 101, 100>>
              ELSE <<112, 97, 114, 116, 105, 116, 105, 111, 110, 95>> \o key
  IN <<67, 83, 49, 50, 49, 95, 65, 51, 47, 105, 110, 100, 101, 120, 101, 115, 47>>
     \o name \o <<47>> \o file \o BinSuffix

\* text.split('_')[-1]: what follows the last underscore.
AfterLastUnderscore(text) ==
  LET last == CHOOSE i \in 1..Len(text) :
                text[i] = 95 /\ \A j \in (i + 1)..Len(text) : text[j] # 95
  IN SubSeq(text, last + 1, Len(text))

\* Last statement of __init__: the routing keys, one per partition path,
\* str(path).split('_')[-1].  For merged.bin, left by a build that failed,
\* the last underscore lies in the directory part of the path.
RoutingKey(path, name) == AfterLastUnderscore(PathText(path, name))

ComputeTokenRanges ==
  /\ pc = "ranges"
  /\ token_ranges' = [i \in 1..Len(partitions) |-> RoutingKey(partitions[i], out_dir.name)]
  /\ pc' = "ready"
  /\ UNCHANGED <<first_build, args, appdata, out_dir, index2, index0, open_streams, corpus, postings_flush_count, partition_posting_size, path_to_id, url_to_id,
                 buf, postings_count, partition_count, page_count, partitions, simhashes,
                 files, next_page, error, document_vectors, result>>

\* ---------------------------------------------------------------- lookup
\* bisect.bisect_left(a, x) on a list of strings (1-based lo, hi here).
RECURSIVE BisectLeft(_, _, _, _)
BisectLeft(a, x, lo, hi) ==
  IF lo >= hi THEN lo
  ELSE LET mid == (lo + hi) \div 2
       IN IF LexLess(a[mid + 1], x) THEN BisectLeft(a, x, mid + 1, hi)
          ELSE BisectLeft(a, x, lo, mid)

bisect_left(a, x) == BisectLeft(a, x, 0, Len(a))

\* _get_partition_file(token); disks[...] on an empty list raises IndexError.
_get_partition_file(ranges, disks, token) ==
  LET index == bisect_left(ranges, CodePoints[token])
  IN IF index # 0 THEN disks[index] ELSE disks[1]

\* The scan of __getitem__(item) over _iter_partition(item): the first entry
\* of the routed partition whose token equals item, else TokenEntry().
RECURSIVE ScanFor(_, _, _)
ScanFor(content, pos, item) ==
  LET e == _next_entry(content, pos)
  IN IF e.stop THEN EmptyEntry
     ELSE IF e.token = item THEN e.token_entry
     ELSE ScanFor(content, e.pos, item)

\* index[item] for a str item: the exception raised ("" if none) and the
\* returned TokenEntry.
GetItem(ranges, disks, fs, item) ==
  IF disks = <<>> THEN [raised |-> "IndexError", value |-> EmptyEntry]
  ELSE LET partition == _get_partition_file(ranges, disks, item)
       IN IF partition \notin DOMAIN fs
          THEN [raised |-> "FileNotFoundError", value |-> EmptyEntry]
          ELSE [raised |-> "", value |-> ScanFor(fs[partition], 1, item)]

LookupItems == Words

__getitem__ ==
  /\ pc \in {"ready", "queryable"}
  /\ \E item \in LookupItems :
       LET r == GetItem(token_ranges, partitions, files, item)
       IN result' = [op |-> "getitem", item |-> item, raised |-> r.raised, value |-> r.value]
  /\ UNCHANGED <<first_build, args, appdata, out_dir, index2, index0, open_streams, corpus, postings_flush_count, partition_posting_size, path_to_id, url_to_id,
                 buf, postings_count, partition_count, page_count, partitions, simhashes,
                 token_ranges, files, next_page, pc, error, document_vectors>>

\* -------------------------------------------------------------- searcher
\* PathMapper.get_id_by_url(url)
get_id_by_url(u2i, url) == IF url \in DOMAIN u2i THEN u2i[url] ELSE -1

\* Variant of get_url_by_id that yields a recorded url whatever the id is.
AnyUrlById(u2i, doc_id) ==
  IF DOMAIN u2i # {} THEN CHOOSE u \in DOMAIN u2i : TRUE ELSE ""

\* PathMapper.get_url_by_id(doc_id)
get_url_by_id(u2i, doc_id) ==
  IF \E u \in DOMAIN u2i : u2i[u] = doc_id
  THEN CHOOSE u \in DOMAIN u2i : u2i[u] = doc_id
  ELSE ""

\* The exceptions that end Searcher.__init__ when it does not load a saved
\* searcher: kwargs['load_existing'] raises KeyError when the keyword was
\* not given (the index has then been built with the default, False); the
\* loop over self.path_mapper.id_to_path raises AttributeError, PathMapper
\* has no such attribute.
SearcherErrors(load_existing) ==
  IF load_existing THEN {"AttributeError"} ELSE {"KeyError", "AttributeError"}

\* Searcher.__init__ after the index is constructed: the document vectors
\* come from _load(), where JSON has turned every key into a string, when
\* load_existing is set and the searcher file exists; otherwise __init__
\* raises with the vectors still the empty dict.
SearcherInit ==
  /\ pc = "ready"
  /\ IF args.load_existing /\ appdata.searcher.exists
     THEN /\ document_vectors' = [keys |-> "str", vec |-> appdata.searcher.document_vectors]
          /\ pc' = "queryable"
          /\ UNCHANGED error
     ELSE /\ document_vectors' = [keys |-> "int", vec |-> <<>>]
          /\ pc' = "failed"
          /\ error' \in SearcherErrors(args.load_existing)
  /\ UNCHANGED <<first_build, args, appdata, out_dir, index2, index0, open_streams, corpus, postings_flush_count, partition_posting_size, path_to_id, url_to_id,
                 buf, postings_count, partition_count, page_count, partitions, simhashes,
                 token_ranges, files, next_page, result>>

\* SpellChecker.correction(token) or token: every word of the model
\* vocabulary is a dictionary word or has no candidate, so it is kept.
Correction(w) == CASE w \in Words -> w

\* _process_query(query); query is given as its whitespace-separated words.
_process_query(query) ==
  LET tokens == SeqRange(query)
      corrected_tokens == {Correction(t) : t \in tokens}
      lemmatized_tokens == {Lemmatize(t) : t \in corrected_tokens}
  IN lemmatized_tokens \cup corrected_tokens

\* --------------------------------------------------------- Python floats
\* A float of the code that is not negative (IEEE 754 binary64): the value
\* m * 2^e with 2^52 <= m < 2^53, or zero.  m is held as four digits in base
\* 2^15, least significant first.  The operations round to nearest, ties to
\* even, as the float operations of Python do.
Zero == [m |-> <<0, 0, 0, 0>>, e |-> 0]

\* a + b + carry on digit sequences.
RECURSIVE BigAdd(_, _, _)
BigAdd(a, b, carry) ==
  IF a = <<>> /\ b = <<>> THEN (IF carry = 0 THEN <<>> ELSE <<carry>>)
  ELSE LET x == (IF a = <<>> THEN 0 ELSE Head(a)) + (IF b = <<>> THEN 0 ELSE Head(b)) + carry
       IN <<x % 32768>> \o BigAdd(IF a = <<>> THEN a ELSE Tail(a),
                                 IF b = <<>> THEN b ELSE Tail(b), x \div 32768)

\* a * digit + carry
RECURSIVE BigTimes(_, _, _)
BigTimes(a, digit, carry) ==
  IF a = <<>> THEN (IF carry = 0 THEN <<>> ELSE <<carry>>)
  ELSE LET x == Head(a) * digit + carry
       IN <<x % 32768>> \o BigTimes(Tail(a), digit, x \div 32768)

\* a * b
RECURSIVE BigMul(_, _)
BigMul(a, b) ==
  IF b = <<>> THEN <<>>
  ELSE BigAdd(BigTimes(a, Head(b), 0), <<0>> \o BigMul(a, Tail(b)), 0)

RECURSIVE DigitBits(_)
DigitBits(d) == IF d = 0 THEN 0 ELSE 1 + DigitBits(d \div 2)

\* Number of bits of a.
RECURSIVE BigBits(_)
BigBits(a) ==
  IF a = <<>> THEN 0
  ELSE IF a[Len(a)] = 0 THEN BigBits(SubSeq(a, 1, Len(a) - 1))
  ELSE 15 * (Len(a) - 1) + DigitBits(a[Len(a)])

\* a * 2^k
BigShl(a, k) == [i \in 1..(k \div 15) |-> 0] \o BigTimes(a, 2^(k % 15), 0)

\* a \div 2^k
BigShr(a, k) ==
  LET rest == SubSeq(a, (k \div 15) + 1, Len(a))
      low == 2^(k % 15)
  IN [i \in 1..Len(rest) |->
        (rest[i] \div low) + (IF i < Len(rest) THEN (rest[i + 1] % low) * (32768 \div low) ELSE 0)]

\* Bit k of a, bit 0 the least significant.
BigBit(a, k) ==
  IF (k \div 15) + 1 > Len(a) THEN 0 ELSE (a[(k \div 15) + 1] \div 2^(k % 15)) % 2

\* a % 2^k # 0
BigLow(a, k) ==
  \E i \in 1..Len(a) : \/ i <= k \div 15 /\ a[i] # 0
                       \/ i = (k \div 15) + 1 /\ a[i] % 2^(k % 15) # 0

Mantissa(a) == [i \in 1..4 |-> IF i <= Len(a) THEN a[i] ELSE 0]

\* The float nearest to n * 2^e for a digit sequence n > 0, ties to even.
FloatRound(n, e) ==
  LET bits == BigBits(n)
      s == bits - 53
  IN IF s <= 0 THEN [m |-> Mantissa(BigShl(n, -s)), e |-> e + s]
     ELSE LET q == BigShr(n, s)
              up == BigBit(n, s - 1) = 1 /\ (BigLow(n, s - 1) \/ BigBit(q, 0) = 1)
              r == IF up THEN BigAdd(q, <<1>>, 0) ELSE q
          IN IF BigBits(r) > 53
             THEN [m |-> Mantissa(BigShr(r, 1)), e |-> e + s + 1]
             ELSE [m |-> Mantissa(r), e |-> e + s]

\* float(k) for an int k >= 0
FloatOfInt(k) == IF k = 0 THEN Zero ELSE FloatRound(<<k % 32768, k \div 32768>>, 0)

\* x * y
FloatMul(x, y) ==
  IF x = Zero \/ y = Zero THEN Zero ELSE FloatRound(BigMul(x.m, y.m), x.e + y.e)

\* x + y
FloatAdd(x, y) ==
  IF x = Zero THEN y
  ELSE IF y = Zero THEN x
  ELSE IF x.e < y.e
  THEN (IF y.e - x.e > 55 THEN y
        ELSE FloatRound(BigAdd(BigShl(y.m, y.e - x.e), x.m, 0), x.e))
  ELSE (IF x.e - y.e > 55 THEN x
        ELSE FloatRound(BigAdd(BigShl(x.m, x.e - y.e), y.m, 0), y.e))

\* x < y
FloatLess(x, y) ==
  IF y = Zero THEN FALSE
  ELSE IF x = Zero THEN TRUE
  ELSE \/ x.e < y.e
       \/ /\ x.e = y.e
          /\ \E i \in 1..4 : x.m[i] < y.m[i] /\ \A j \in (i + 1)..4 : x.m[j] = y.m[j]

\* The float held as <<digits of m, e>> in a table.
AsFloat(t) == [m |-> <<t[1], t[2], t[3], t[4]>>, e |-> t[5]]

\* HTML_TAGS_WEIGHTS: the float of every literal, as <<digits of m, e>>.
HTML_TAGS_WEIGHTS ==
  [k \in TagKeys |->
     CASE k = "h1" -> AsFloat(<<6554, 13107, 26214, 204, -55>>)
       [] k = "h2" -> AsFloat(<<13107, 26214, 19660, 153, -55>>)
       [] k = "h3" -> AsFloat(<<6554, 13107, 26214, 204, -56>>)
       [] k = "title" -> AsFloat(<<6554, 13107, 26214, 204, -54>>)
       [] k = "b" -> AsFloat(<<13107, 26214, 19660, 153, -56>>)
       [] k = "strong" -> AsFloat(<<23593, 1310, 9175, 225, -57>>)
       [] k = "other" -> AsFloat(<<5243, 3932, 27525, 163, -58>>)]

\* math.log(frequency) for the frequencies 1, 2, ... of a tag.
LogOfFrequency ==
  <<<<0, 0, 0, 0, 0>>,
     <<14831, 32244, 14603, 177, -53>>,
     <<779, 30042, 20393, 140, -52>>,
     <<14831, 32244, 14603, 177, -52>>,
     <<3379, 28635, 263, 206, -52>>,
     <<8194, 29780, 11311, 229, -52>>,
     <<23127, 23652, 2506, 249, -52>>,
     <<11123, 32375, 2760, 133, -51>>,
     <<779, 30042, 20393, 140, -51>>,
     <<21782, 30570, 11974, 147, -51>>,
     <<14156, 28414, 15246, 153, -51>>,
     <<7805, 31143, 1114, 159, -51>>,
     <<3153, 22115, 5136, 164, -51>>,
     <<15271, 11695, 29480, 168, -51>>,
     <<18463, 29338, 10328, 173, -51>>,
     <<14831, 32244, 14603, 177, -51>>>>

\* math.log(page_count / token_df): row page_count holds the entries of
\* token_df = 1, ..., page_count.
LogOfRatio ==
  <<<<<<0, 0, 0, 0, 0>>>>,
     <<<<14831, 32244, 14603, 177, -53>>, <<0, 0, 0, 0, 0>>>>,
     <<<<779, 30042, 20393, 140, -52>>, <<6220, 22911, 19599, 207, -54>>, <<0, 0, 0, 0, 0>>>>,
     <<<<14831, 32244, 14603, 177, -52>>, <<14831, 32244, 14603, 177, -53>>, <<23441, 8809, 9608, 147, -54>>, <<0, 0, 0, 0, 0>>>>,
     <<<<3379, 28635, 263, 206, -52>>, <<24696, 25025, 18691, 234, -53>>, <<5202, 29954, 25275, 130, -53>>, <<6690, 3893, 16351, 228, -55>>, <<0, 0, 0, 0, 0>>>>,
     <<<<8194, 29780, 11311, 229, -52>>, <<779, 30042, 20393, 140, -52>>, <<14831, 32244, 14603, 177, -53>>, <<6220, 22911, 19599, 207, -54>>, <<5749, 9161, 22848, 186, -55>>, <<0, 0, 0, 0, 0>>>>,
     <<<<23127, 23652, 2506, 249, -52>>, <<15712, 23914, 11588, 160, -52>>, <<11930, 19989, 29761, 216, -53>>, <<16592, 15584, 8573, 143, -53>>, <<13455, 12838, 8971, 172, -54>>, <<21163, 16515, 27862, 157, -55>>, <<0, 0, 0, 0, 0>>>>,
     <<<<11123, 32375, 2760, 133, -51>>, <<14831, 32244, 14603, 177, -52>>, <<10168, 3881, 3024, 251, -53>>, <<14831, 32244, 14603, 177, -53>>, <<9935, 13390, 21032, 240, -54>>, <<23441, 8809, 9608, 147, -54>>, <<25722, 1103, 24122, 136, -55>>, <<0, 0, 0, 0, 0>>>>,
     <<<<779, 30042, 20393, 140, -51>>, <<26910, 27577, 17101, 192, -52>>, <<779, 30042, 20393, 140, -52>>, <<6220, 22911, 19599, 207, -53>>, <<29124, 30129, 15511, 150, -53>>, <<6220, 22911, 19599, 207, -54>>, <<12025, 14653, 22052, 128, -54>>, <<29414, 23637, 7197, 241, -56>>, <<0, 0, 0, 0, 0>>>>,
     <<<<21782, 30570, 11974, 147, -51>>, <<3379, 28635, 263, 206, -52>>, <<10017, 31099, 3555, 154, -52>>, <<24696, 25025, 18691, 234, -53>>, <<14831, 32244, 14603, 177, -53>>, <<5202, 29954, 25275, 130, -53>>, <<16207, 18882, 20236, 182, -54>>, <<6690, 3893, 16351, 228, -55>>, <<16737, 16916, 25504, 215, -56>>, <<0, 0, 0, 0, 0>>>>,
     <<<<14156, 28414, 15246, 153, -51>>, <<20896, 24322, 6807, 218, -52>>, <<27533, 26786, 10099, 166, -52>>, <<13480, 24584, 15889, 129, -52>>, <<17097, 23619, 27691, 201, -53>>, <<7466, 21329, 5595, 155, -53>>, <<20736, 1632, 13644, 231, -54>>, <<24258, 1080, 1583, 163, -54>>, <<17429, 6726, 15951, 205, -55>>, <<18124, 29304, 6397, 195, -56>>, <<0, 0, 0, 0, 0>>>>,
     <<<<7805, 31143, 1114, 159, -51>>, <<8194, 29780, 11311, 229, -52>>, <<14831, 32244, 14603, 177, -52>>, <<779, 30042, 20393, 140, -52>>, <<24460, 1766, 3932, 224, -53>>, <<14831, 32244, 14603, 177, -53>>, <<17732, 11731, 32214, 137, -53>>, <<6220, 22911, 19599, 207, -54>>, <<23441, 8809, 9608, 147, -54>>, <<5749, 9161, 22848, 186, -55>>, <<26145, 21785, 6530, 178, -56>>, <<0, 0, 0, 0, 0>>>>,
     <<<<3153, 22115, 5136, 164, -51>>, <<31658, 11723, 19355, 239, -52>>, <<5527, 14188, 22647, 187, -52>>, <<24243, 11985, 28437, 150, -52>>, <<5853, 31190, 20018, 244, -53>>, <<28991, 28899, 30690, 197, -53>>, <<31894, 8386, 15533, 158, -53>>, <<1773, 16222, 19005, 248, -54>>, <<18995, 2120, 9014, 188, -54>>, <<14812, 30659, 10829, 134, -54>>, <<20566, 30282, 2076, 171, -55>>, <<14974, 6011, 30391, 163, -56>>, <<0, 0, 0, 0, 0>>>>,
     <<<<15271, 11695, 29480, 168, -51>>, <<23127, 23652, 2506, 249, -52>>, <<29765, 26116, 5798, 197, -52>>, <<15712, 23914, 11588, 160, -52>>, <<27163, 27523, 25928, 131, -52>>, <<11930, 19989, 29761, 216, -53>>, <<14831, 32244, 14603, 177, -53>>, <<16592, 15584, 8573, 143, -53>>, <<17639, 17067, 7155, 226, -54>>, <<13455, 12838, 8971, 172, -54>>, <<17851, 27408, 31127, 246, -55>>, <<21163, 16515, 27862, 157, -55>>, <<27340, 27019, 25333, 151, -56>>, <<0, 0, 0, 0, 0>>>>,
     <<<<18463, 29338, 10328, 173, -51>>, <<14755, 29469, 31253, 128, -51>>, <<3379, 28635, 263, 206, -52>>, <<22095, 26432, 6053, 169, -52>>, <<779, 30042, 20393, 140, -52>>, <<24696, 25025, 18691, 234, -53>>, <<27597, 4512, 3534, 195, -53>>, <<29358, 20620, 30271, 160, -53>>, <<5202, 29954, 25275, 130, -53>>, <<6220, 22911, 19599, 207, -54>>, <<1689, 7393, 26192, 158, -54>>, <<6690, 3893, 16351, 228, -55>>, <<15581, 17271, 17539, 146, -55>>, <<3823, 7523, 9745, 141, -56>>, <<0, 0, 0, 0, 0>>>>,
     <<<<14831, 32244, 14603, 177, -51>>, <<11123, 32375, 2760, 133, -51>>, <<28884, 1678, 8814, 214, -52>>, <<14831, 32244, 14603, 177, -52>>, <<26283, 3085, 28944, 148, -52>>, <<10168, 3881, 3024, 251, -53>>, <<13070, 16136, 20634, 211, -53>>, <<14831, 32244, 14603, 177, -53>>, <<23442, 8809, 9608, 147, -53>>, <<9935, 13390, 21032, 240, -54>>, <<5404, 30640, 27624, 191, -54>>, <<23441, 8809, 9608, 147, -54>>, <<23013, 30997, 20404, 212, -55>>, <<25722, 1103, 24122, 136, -55>>, <<14854, 27452, 5730, 132, -56>>, <<0, 0, 0, 0, 0>>>>,
     <<<<32634, 1012, 10671, 181, -51>>, <<28926, 1143, 31596, 136, -51>>, <<31721, 4751, 948, 222, -52>>, <<17668, 2549, 6738, 185, -52>>, <<29120, 6158, 21078, 156, -52>>, <<24306, 5013, 10030, 133, -52>>, <<18744, 22282, 4902, 227, -53>>, <<20506, 5622, 31640, 192, -53>>, <<29117, 14955, 26644, 162, -53>>, <<10641, 12841, 27552, 135, -53>>, <<16752, 10164, 28929, 222, -54>>, <<2024, 21102, 10912, 178, -54>>, <<6471, 27791, 11506, 137, -54>>, <<15651, 25688, 26730, 198, -55>>, <<30124, 5542, 5474, 128, -55>>, <<25254, 34, 10435, 248, -57>>, <<0, 0, 0, 0, 0>>>>,
     <<<<4486, 29911, 32236, 184, -51>>, <<779, 30042, 20393, 140, -51>>, <<8194, 29780, 11311, 229, -52>>, <<26910, 27577, 17101, 192, -52>>, <<5593, 31187, 31441, 163, -52>>, <<779, 30042, 20393, 140, -52>>, <<4460, 6803, 25630, 241, -53>>, <<6220, 22911, 19599, 207, -53>>, <<14831, 32244, 14603, 177, -53>>, <<29124, 30129, 15511, 150, -53>>, <<20951, 11973, 4848, 252, -54>>, <<6220, 22911, 19599, 207, -54>>, <<10667, 29600, 20193, 166, -54>>, <<12025, 14653, 22052, 128, -54>>, <<5749, 9161, 22848, 186, -55>>, <<29414, 23637, 7197, 241, -56>>, <<807, 14473, 3960, 234, -57>>, <<0, 0, 0, 0, 0>>>>,
     <<<<13100, 3081, 14552, 188, -51>>, <<9393, 3212, 2709, 144, -51>>, <<25422, 8888, 8710, 236, -52>>, <<11370, 6686, 14500, 199, -52>>, <<22821, 10295, 28840, 170, -52>>, <<18006, 9150, 17792, 147, -52>>, <<6148, 30556, 20426, 255, -53>>, <<7908, 13896, 14396, 221, -53>>, <<16520, 23229, 9400, 191, -53>>, <<30811, 21114, 10308, 164, -53>>, <<28547, 29739, 29988, 139, -53>>, <<9596, 4881, 9193, 235, -54>>, <<14043, 11570, 9787, 194, -54>>, <<15401, 29391, 11645, 156, -54>>, <<12501, 5869, 2035, 242, -55>>, <<5076, 24911, 31937, 175, -55>>, <<30294, 652, 25890, 227, -56>>, <<27015, 19600, 15051, 221, -57>>, <<0, 0, 0, 0, 0>>>>,
     <<<<25489, 30439, 23817, 191, -51>>, <<21782, 30570, 11974, 147, -51>>, <<17432, 30837, 27241, 242, -52>>, <<3379, 28635, 263, 206, -52>>, <<14831, 32244, 14603, 177, -52>>, <<10017, 31099, 3555, 154, -52>>, <<27851, 4458, 12361, 134, -52>>, <<24696, 25025, 18691, 234, -53>>, <<539, 1591, 13696, 204, -53>>, <<14831, 32244, 14603, 177, -53>>, <<12566, 8101, 1516, 153, -53>>, <<5202, 29954, 25275, 130, -53>>, <<14852, 1061, 18378, 220, -54>>, <<16207, 18882, 20236, 182, -54>>, <<23441, 8809, 9608, 147, -54>>, <<6690, 3893, 16351, 228, -55>>, <<16761, 12076, 13742, 166, -55>>, <<16737, 16916, 25504, 215, -56>>, <<6448, 14232, 3189, 210, -57>>, <<0, 0, 0, 0, 0>>>>,
     <<<<11953, 10463, 27834, 194, -51>>, <<8245, 10594, 15991, 150, -51>>, <<23127, 23652, 2506, 249, -52>>, <<9075, 21450, 8296, 212, -52>>, <<20527, 25059, 22636, 183, -52>>, <<15712, 23914, 11588, 160, -52>>, <<779, 30042, 20393, 140, -52>>, <<3318, 10656, 1989, 247, -53>>, <<11930, 19989, 29761, 216, -53>>, <<26222, 17874, 30669, 189, -53>>, <<23957, 26499, 17581, 165, -53>>, <<16592, 15584, 8573, 143, -53>>, <<4864, 5090, 17741, 245, -54>>, <<6220, 22911, 19599, 207, -54>>, <<13455, 12838, 8971, 172, -54>>, <<9742, 22359, 7538, 139, -54>>, <<29556, 20133, 12468, 216, -55>>, <<21163, 16515, 27862, 157, -55>>, <<28823, 6846, 31815, 204, -56>>, <<18416, 32229, 27672, 199, -57>>, <<0, 0, 0, 0, 0>>>>,
     <<<<17864, 28283, 27089, 197, -51>>, <<14156, 28414, 15246, 153, -51>>, <<2180, 26525, 1017, 255, -52>>, <<20896, 24322, 6807, 218, -52>>, <<32348, 27931, 21147, 189, -52>>, <<27533, 26786, 10099, 166, -52>>, <<12600, 146, 18905, 146, -52>>, <<13480, 24584, 15889, 129, -52>>, <<2804, 25734, 26783, 228, -53>>, <<17097, 23619, 27691, 201, -53>>, <<14831, 32244, 14603, 177, -53>>, <<7466, 21329, 5595, 155, -53>>, <<26074, 24673, 22276, 134, -53>>, <<20736, 1632, 13644, 231, -54>>, <<27971, 24327, 3015, 196, -54>>, <<24258, 1080, 1583, 163, -54>>, <<12911, 21556, 278, 132, -54>>, <<17429, 6726, 15951, 205, -55>>, <<10675, 10018, 3996, 150, -55>>, <<18124, 29304, 6397, 195, -56>>, <<17835, 26379, 17890, 190, -57>>, <<0, 0, 0, 0, 0>>>>,
     <<<<13296, 31651, 22007, 200, -51>>, <<9588, 31782, 10164, 156, -51>>, <<12907, 246, 11811, 130, -51>>, <<11761, 31058, 29411, 223, -52>>, <<23212, 1899, 10984, 195, -52>>, <<18398, 754, 32704, 171, -52>>, <<3465, 6882, 8741, 152, -52>>, <<4345, 31320, 5725, 135, -52>>, <<17301, 6437, 6456, 240, -53>>, <<31593, 4322, 7364, 213, -53>>, <<29329, 12947, 27044, 188, -53>>, <<21965, 2032, 18036, 166, -53>>, <<7804, 5377, 1949, 146, -53>>, <<16964, 28575, 5756, 254, -54>>, <<24201, 18502, 27896, 218, -54>>, <<20487, 28023, 26463, 185, -54>>, <<9139, 15731, 25159, 154, -54>>, <<9879, 27844, 176, 251, -55>>, <<3129, 31136, 20989, 195, -55>>, <<1513, 19386, 3808, 143, -55>>, <<10217, 22657, 10164, 186, -56>>, <<2587, 18935, 2438, 182, -57>>, <<0, 0, 0, 0, 0>>>>,
     <<<<11513, 31012, 12957, 203, -51>>, <<7805, 31143, 1114, 159, -51>>, <<11123, 32375, 2760, 133, -51>>, <<8194, 29780, 11311, 229, -52>>, <<19646, 621, 25652, 200, -52>>, <<14831, 32244, 14603, 177, -52>>, <<32666, 5603, 23409, 157, -52>>, <<779, 30042, 20393, 140, -52>>, <<10168, 3881, 3024, 251, -53>>, <<24460, 1766, 3932, 224, -53>>, <<22195, 10391, 23612, 199, -53>>, <<14831, 32244, 14603, 177, -53>>, <<671, 2821, 31285, 156, -53>>, <<17732, 11731, 32214, 137, -53>>, <<9935, 13390, 21032, 240, -54>>, <<6220, 22911, 19599, 207, -54>>, <<27640, 10618, 18295, 176, -54>>, <<23441, 8809, 9608, 147, -54>>, <<7362, 20911, 7261, 239, -55>>, <<5749, 9161, 22848, 186, -55>>, <<25722, 1103, 24122, 136, -55>>, <<26145, 21785, 6530, 178, -56>>, <<16935, 24636, 10622, 174, -57>>, <<0, 0, 0, 0, 0>>>>,
     <<<<3379, 28635, 263, 206, -51>>, <<32440, 28765, 21188, 161, -51>>, <<2990, 29998, 22834, 135, -51>>, <<24696, 25025, 18691, 234, -52>>, <<3379, 28635, 263, 206, -52>>, <<31333, 27489, 21983, 182, -52>>, <<16400, 849, 30789, 162, -52>>, <<17280, 25287, 27773, 145, -52>>, <<5201, 29954, 25275, 130, -52>>, <<24696, 25025, 18691, 234, -53>>, <<22432, 882, 5604, 210, -53>>, <<15067, 22735, 29363, 187, -53>>, <<906, 26080, 13276, 167, -53>>, <<17968, 2222, 14206, 148, -53>>, <<5202, 29954, 25275, 130, -53>>, <<6690, 3893, 16351, 228, -54>>, <<28110, 24368, 15046, 197, -54>>, <<23912, 22559, 6359, 168, -54>>, <<20537, 7821, 16766, 140, -54>>, <<6690, 3893, 16351, 228, -55>>, <<26663, 28603, 17624, 178, -55>>, <<30402, 5624, 29536, 130, -55>>, <<10344, 1782, 25085, 170, -56>>, <<3768, 11696, 6779, 167, -57>>, <<0, 0, 0, 0, 0>>>>,
     <<<<6861, 21984, 16979, 208, -51>>, <<3153, 22115, 5136, 164, -51>>, <<6471, 23347, 6782, 138, -51>>, <<31658, 11723, 19355, 239, -52>>, <<10342, 15333, 927, 211, -52>>, <<5527, 14188, 22647, 187, -52>>, <<23362, 20315, 31452, 167, -52>>, <<24243, 11985, 28437, 150, -52>>, <<12164, 16652, 25939, 135, -52>>, <<5853, 31190, 20018, 244, -53>>, <<3589, 7047, 6931, 220, -53>>, <<28991, 28899, 30690, 197, -53>>, <<14831, 32244, 14603, 177, -53>>, <<31894, 8386, 15533, 158, -53>>, <<19127, 3350, 26603, 140, -53>>, <<1773, 16222, 19005, 248, -54>>, <<23191, 3929, 17701, 217, -54>>, <<18995, 2120, 9014, 188, -54>>, <<15619, 20150, 19420, 160, -54>>, <<14812, 30659, 10829, 134, -54>>, <<16831, 20493, 22933, 218, -55>>, <<20566, 30282, 2076, 171, -55>>, <<23443, 18329, 2934, 251, -56>>, <<14974, 6011, 30391, 163, -56>>, <<26205, 326, 21235, 160, -57>>, <<0, 0, 0, 0, 0>>>>,
     <<<<1168, 28679, 30590, 210, -51>>, <<30228, 28809, 18747, 166, -51>>, <<779, 30042, 20393, 140, -51>>, <<20273, 25113, 13809, 244, -52>>, <<31725, 28722, 28149, 215, -52>>, <<26910, 27577, 17101, 192, -52>>, <<11977, 937, 25907, 172, -52>>, <<12857, 25375, 22891, 155, -52>>, <<779, 30042, 20393, 140, -52>>, <<15850, 25201, 8927, 254, -53>>, <<13585, 1058, 28608, 229, -53>>, <<6220, 22911, 19599, 207, -53>>, <<24828, 26255, 3512, 187, -53>>, <<9122, 2398, 4442, 168, -53>>, <<29124, 30129, 15511, 150, -53>>, <<10883, 18506, 31179, 133, -53>>, <<10416, 24720, 28286, 236, -54>>, <<6220, 22911, 19599, 207, -54>>, <<2843, 8173, 30006, 179, -54>>, <<2038, 18682, 21415, 153, -54>>, <<12025, 14653, 22052, 128, -54>>, <<27782, 6327, 23248, 209, -55>>, <<2561, 17978, 6254, 164, -55>>, <<29414, 23637, 7197, 241, -56>>, <<27540, 1405, 20192, 157, -56>>, <<28882, 2484, 19149, 154, -57>>, <<0, 0, 0, 0, 0>>>>,
     <<<<18979, 11564, 8555, 213, -51>>, <<15271, 11695, 29480, 168, -51>>, <<18590, 12927, 31126, 142, -51>>, <<23127, 23652, 2506, 249, -52>>, <<1811, 27262, 16846, 220, -52>>, <<29765, 26116, 5798, 197, -52>>, <<14831, 32244, 14603, 177, -52>>, <<15712, 23914, 11588, 160, -52>>, <<3633, 28581, 9090, 145, -52>>, <<27163, 27523, 25928, 131, -52>>, <<19294, 30904, 6001, 239, -53>>, <<11930, 19989, 29761, 216, -53>>, <<30537, 23333, 13674, 196, -53>>, <<14831, 32244, 14603, 177, -53>>, <<2065, 27208, 25673, 159, -53>>, <<16592, 15584, 8573, 143, -53>>, <<21835, 18876, 15842, 255, -54>>, <<17639, 17067, 7155, 226, -54>>, <<14262, 2329, 17562, 198, -54>>, <<13455, 12838, 8971, 172, -54>>, <<23441, 8809, 9608, 147, -54>>, <<17851, 27408, 31127, 246, -55>>, <<25398, 6290, 14134, 201, -55>>, <<21163, 16515, 27862, 157, -55>>, <<7682, 10799, 3183, 232, -56>>, <<27340, 27019, 25333, 151, -56>>, <<25808, 18786, 31518, 148, -57>>, <<0, 0, 0, 0, 0>>>>,
     <<<<32287, 6043, 16611, 215, -51>>, <<28579, 6174, 4768, 171, -51>>, <<31897, 7406, 6414, 145, -51>>, <<16974, 12611, 18618, 253, -52>>, <<28426, 16220, 190, 225, -52>>, <<23611, 15075, 21910, 201, -52>>, <<8679, 21203, 30715, 181, -52>>, <<9559, 12873, 27700, 164, -52>>, <<30248, 17539, 25202, 149, -52>>, <<21010, 16482, 9272, 136, -52>>, <<6988, 8822, 5457, 248, -53>>, <<32391, 30674, 29216, 225, -53>>, <<18231, 1251, 13130, 205, -53>>, <<2526, 10162, 14059, 186, -53>>, <<22527, 5125, 25129, 168, -53>>, <<4286, 26270, 8028, 152, -53>>, <<31379, 20123, 23760, 136, -53>>, <<25795, 5670, 6066, 244, -54>>, <<22419, 23700, 16472, 216, -54>>, <<21611, 1441, 7882, 190, -54>>, <<31598, 30180, 8518, 165, -54>>, <<17081, 18691, 14474, 141, -54>>, <<8941, 16265, 11955, 237, -55>>, <<4702, 26490, 25683, 193, -55>>, <<3763, 31758, 32180, 151, -55>>, <<27200, 14200, 20976, 223, -56>>, <<12770, 29342, 11401, 146, -56>>, <<32491, 7129, 24053, 143, -57>>, <<0, 0, 0, 0, 0>>>>,
     <<<<22171, 29207, 22171, 217, -51>>, <<18463, 29338, 10328, 173, -51>>, <<21782, 30570, 11974, 147, -51>>, <<14755, 29469, 31253, 128, -51>>, <<8194, 29780, 11311, 229, -52>>, <<3379, 28635, 263, 206, -52>>, <<21214, 1994, 9069, 186, -52>>, <<22095, 26432, 6053, 169, -52>>, <<10017, 31099, 3555, 154, -52>>, <<779, 30042, 20393, 140, -52>>, <<16030, 1586, 13850, 128, -52>>, <<24696, 25025, 18691, 234, -53>>, <<10534, 28370, 2604, 214, -53>>, <<27597, 4512, 3534, 195, -53>>, <<14831, 32244, 14603, 177, -53>>, <<29358, 20620, 30271, 160, -53>>, <<23684, 14474, 13235, 145, -53>>, <<5202, 29954, 25275, 130, -53>>, <<7027, 12402, 28190, 233, -54>>, <<6220, 22911, 19599, 207, -54>>, <<16207, 18882, 20236, 182, -54>>, <<1689, 7393, 26192, 158, -54>>, <<5462, 13218, 1311, 136, -54>>, <<6690, 3893, 16351, 228, -55>>, <<5749, 9161, 22848, 186, -55>>, <<15581, 17271, 17539, 146, -55>>, <<16737, 16916, 25504, 215, -56>>, <<3823, 7523, 9745, 141, -56>>, <<7950, 7916, 28205, 138, -57>>, <<0, 0, 0, 0, 0>>>>,
     <<<<11098, 4386, 25401, 219, -51>>, <<7390, 4517, 13558, 175, -51>>, <<10709, 5749, 15204, 149, -51>>, <<3682, 4648, 1715, 131, -51>>, <<18817, 12905, 17770, 233, -52>>, <<14002, 11760, 6722, 210, -52>>, <<31837, 17887, 15527, 190, -52>>, <<32717, 9557, 12512, 173, -52>>, <<20639, 14224, 10014, 158, -52>>, <<11401, 13167, 26852, 144, -52>>, <<26653, 17479, 20308, 132, -52>>, <<13173, 24044, 31608, 242, -53>>, <<31780, 27388, 15521, 222, -53>>, <<16074, 3531, 16451, 203, -53>>, <<3309, 31263, 27520, 185, -53>>, <<17835, 19639, 10420, 169, -53>>, <<12160, 13493, 26152, 153, -53>>, <<26447, 28972, 5424, 139, -53>>, <<16748, 10439, 21256, 250, -54>>, <<15942, 20948, 12665, 224, -54>>, <<25929, 16919, 13302, 199, -54>>, <<11412, 5430, 19258, 175, -54>>, <<15183, 11255, 27145, 152, -54>>, <<29451, 16367, 1241, 131, -54>>, <<25192, 5235, 8980, 220, -55>>, <<2258, 13346, 3671, 180, -55>>, <<27809, 4532, 15268, 141, -55>>, <<9946, 32440, 14776, 208, -56>>, <<10081, 12491, 19134, 136, -56>>, <<12247, 17066, 10063, 134, -57>>, <<0, 0, 0, 0, 0>>>>,
     <<<<18539, 32113, 26446, 221, -51>>, <<14831, 32244, 14603, 177, -51>>, <<18150, 708, 16250, 151, -51>>, <<11123, 32375, 2760, 133, -51>>, <<931, 2824, 19862, 237, -52>>, <<28884, 1678, 8814, 214, -52>>, <<13950, 7806, 17619, 194, -52>>, <<14831, 32244, 14603, 177, -52>>, <<2753, 4143, 12106, 162, -52>>, <<26283, 3085, 28944, 148, -52>>, <<8767, 7398, 22400, 136, -52>>, <<10168, 3881, 3024, 251, -53>>, <<28777, 7225, 19705, 230, -53>>, <<13070, 16136, 20634, 211, -53>>, <<304, 11100, 31704, 193, -53>>, <<14831, 32244, 14603, 177, -53>>, <<9157, 26098, 30335, 161, -53>>, <<23442, 8809, 9608, 147, -53>>, <<21754, 17824, 14811, 133, -53>>, <<9935, 13390, 21032, 240, -54>>, <<19919, 9361, 21669, 215, -54>>, <<5404, 30640, 27624, 191, -54>>, <<9175, 3697, 2744, 169, -54>>, <<23441, 8809, 9608, 147, -54>>, <<13178, 22887, 25713, 252, -55>>, <<23013, 30997, 20404, 212, -55>>, <<15792, 22184, 32001, 173, -55>>, <<25722, 1103, 24122, 136, -55>>, <<18824, 15026, 19833, 201, -56>>, <<14854, 27452, 5730, 132, -56>>, <<17472, 5070, 1398, 130, -57>>, <<0, 0, 0, 0, 0>>>>,
     <<<<14545, 27051, 25443, 223, -51>>, <<10837, 27182, 13600, 179, -51>>, <<14156, 28414, 15246, 153, -51>>, <<7129, 27313, 1757, 135, -51>>, <<25710, 25467, 17855, 241, -52>>, <<20896, 24322, 6807, 218, -52>>, <<5963, 30450, 15612, 198, -52>>, <<6843, 22120, 12597, 181, -52>>, <<27533, 26786, 10099, 166, -52>>, <<18295, 25729, 26937, 152, -52>>, <<779, 30042, 20393, 140, -52>>, <<13480, 24584, 15889, 129, -52>>, <<12800, 19745, 15692, 238, -53>>, <<29862, 28655, 16621, 219, -53>>, <<17097, 23619, 27691, 201, -53>>, <<31623, 11995, 10591, 185, -53>>, <<25949, 5849, 26323, 169, -53>>, <<7466, 21329, 5595, 155, -53>>, <<5779, 30344, 10798, 141, -53>>, <<21758, 19214, 6503, 128, -53>>, <<20736, 1632, 13644, 231, -54>>, <<6220, 22911, 19599, 207, -54>>, <<9991, 28736, 27486, 184, -54>>, <<24258, 1080, 1583, 163, -54>>, <<23790, 20098, 4831, 142, -54>>, <<24642, 15539, 4354, 244, -55>>, <<17429, 6726, 15951, 205, -55>>, <<27357, 18413, 8071, 168, -55>>, <<11046, 8439, 10250, 132, -55>>, <<18124, 29304, 6397, 195, -56>>, <<11998, 4387, 1366, 128, -56>>, <<13056, 7408, 2668, 252, -58>>, <<0, 0, 0, 0, 0>>>>,
     <<<<3574, 882, 22514, 225, -51>>, <<32634, 1012, 10671, 181, -51>>, <<3184, 2245, 12317, 155, -51>>, <<28926, 1143, 31596, 136, -51>>, <<3768, 5897, 11996, 245, -52>>, <<31721, 4751, 948, 222, -52>>, <<16788, 10879, 9753, 202, -52>>, <<17668, 2549, 6738, 185, -52>>, <<5590, 7216, 4240, 170, -52>>, <<29120, 6158, 21078, 156, -52>>, <<11604, 10471, 14534, 144, -52>>, <<24306, 5013, 10030, 133, -52>>, <<1683, 13372, 3973, 246, -53>>, <<18744, 22282, 4902, 227, -53>>, <<5978, 17246, 15972, 209, -53>>, <<20506, 5622, 31640, 192, -53>>, <<14831, 32244, 14603, 177, -53>>, <<29117, 14955, 26644, 162, -53>>, <<27429, 23970, 31847, 148, -53>>, <<10641, 12841, 27552, 135, -53>>, <<31269, 21653, 22973, 246, -54>>, <<16752, 10164, 28929, 222, -54>>, <<20523, 15989, 4048, 200, -54>>, <<2024, 21102, 10912, 178, -54>>, <<1555, 7352, 14161, 157, -54>>, <<6471, 27791, 11506, 137, -54>>, <<5725, 14001, 1842, 236, -55>>, <<15651, 25688, 26730, 198, -55>>, <<32107, 15713, 28909, 162, -55>>, <<30124, 5542, 5474, 128, -55>>, <<21360, 18936, 5916, 189, -56>>, <<25254, 34, 10435, 248, -57>>, <<4677, 25429, 18201, 244, -58>>, <<0, 0, 0, 0, 0>>>>,
     <<<<29637, 9759, 17769, 227, -51>>, <<25930, 9890, 5926, 183, -51>>, <<29248, 11122, 7572, 157, -51>>, <<22222, 10021, 26851, 138, -51>>, <<23127, 23652, 2506, 249, -52>>, <<18312, 22507, 24226, 225, -52>>, <<3379, 28635, 263, 206, -52>>, <<4260, 20305, 30016, 188, -52>>, <<24950, 24971, 27518, 173, -52>>, <<15712, 23914, 11588, 160, -52>>, <<30963, 28226, 5044, 148, -52>>, <<10897, 22769, 540, 137, -52>>, <<7634, 16115, 17762, 253, -53>>, <<24696, 25025, 18691, 234, -53>>, <<11930, 19989, 29761, 216, -53>>, <<26457, 8365, 12661, 200, -53>>, <<20781, 2219, 28393, 184, -53>>, <<2300, 17699, 7665, 170, -53>>, <<611, 26714, 12868, 156, -53>>, <<16592, 15584, 8573, 143, -53>>, <<5202, 29954, 25275, 130, -53>>, <<28654, 15650, 23739, 237, -54>>, <<32428, 21475, 31626, 214, -54>>, <<13924, 26588, 5722, 193, -54>>, <<13455, 12838, 8971, 172, -54>>, <<18374, 509, 6317, 152, -54>>, <<31148, 12486, 28499, 132, -54>>, <<6690, 3893, 16351, 228, -55>>, <<23145, 26686, 18529, 192, -55>>, <<21163, 16515, 27862, 157, -55>>, <<3445, 8114, 17925, 248, -56>>, <<27468, 5578, 17226, 183, -56>>, <<15632, 7453, 350, 241, -57>>, <<26564, 22245, 15266, 237, -58>>, <<0, 0, 0, 0, 0>>>>,
     <<<<8194, 29780, 11311, 229, -51>>, <<4486, 29911, 32236, 184, -51>>, <<7805, 31143, 1114, 159, -51>>, <<779, 30042, 20393, 140, -51>>, <<13009, 30925, 22359, 252, -52>>, <<8194, 29780, 11311, 229, -52>>, <<26029, 3139, 20117, 209, -52>>, <<26910, 27577, 17101, 192, -52>>, <<14831, 32244, 14603, 177, -52>>, <<5593, 31187, 31441, 163, -52>>, <<20845, 2731, 24898, 151, -52>>, <<779, 30042, 20393, 140, -52>>, <<10082, 15330, 12350, 130, -52>>, <<4460, 6803, 25630, 241, -53>>, <<24460, 1766, 3932, 224, -53>>, <<6220, 22911, 19599, 207, -53>>, <<546, 16765, 2563, 192, -53>>, <<14831, 32244, 14603, 177, -53>>, <<13143, 8491, 19807, 163, -53>>, <<29124, 30129, 15511, 150, -53>>, <<17732, 11731, 32214, 137, -53>>, <<20951, 11973, 4848, 252, -54>>, <<24722, 17798, 12735, 229, -54>>, <<6220, 22911, 19599, 207, -54>>, <<5750, 9161, 22848, 186, -54>>, <<10667, 29600, 20193, 166, -54>>, <<23441, 8809, 9608, 147, -54>>, <<12025, 14653, 22052, 128, -54>>, <<7736, 19332, 13515, 221, -55>>, <<5749, 9161, 22848, 186, -55>>, <<19079, 13086, 3948, 153, -55>>, <<29414, 23637, 7197, 241, -56>>, <<26145, 21785, 6530, 178, -56>>, <<807, 14473, 3960, 234, -57>>, <<7757, 6700, 25422, 230, -58>>, <<0, 0, 0, 0, 0>>>>,
     <<<<18365, 23669, 3235, 231, -51>>, <<14657, 23800, 24160, 186, -51>>, <<17976, 25032, 25806, 160, -51>>, <<10950, 23931, 12317, 142, -51>>, <<292, 25736, 3103, 128, -51>>, <<28536, 17558, 27927, 232, -52>>, <<13603, 23686, 3964, 213, -52>>, <<14484, 15356, 949, 196, -52>>, <<2405, 20023, 31219, 180, -52>>, <<25936, 18965, 15289, 167, -52>>, <<8419, 23278, 8745, 155, -52>>, <<21121, 17820, 4241, 144, -52>>, <<30425, 3108, 28966, 133, -52>>, <<12375, 15128, 26093, 248, -53>>, <<32377, 10091, 4395, 231, -53>>, <<14136, 31236, 20062, 214, -53>>, <<8461, 25090, 3026, 199, -53>>, <<22746, 7801, 15067, 184, -53>>, <<21059, 16816, 20270, 170, -53>>, <<4272, 5687, 15975, 157, -53>>, <<25649, 20056, 32677, 144, -53>>, <<2007, 14312, 2887, 133, -53>>, <<7786, 1681, 13662, 243, -54>>, <<22053, 6793, 20526, 221, -54>>, <<21582, 25811, 23774, 200, -54>>, <<26500, 13482, 21120, 180, -54>>, <<6508, 25460, 10534, 161, -54>>, <<27855, 31303, 22978, 142, -54>>, <<6635, 19865, 15368, 249, -55>>, <<4648, 9694, 24701, 214, -55>>, <<17974, 13619, 5801, 181, -55>>, <<29987, 28735, 21835, 148, -55>>, <<23936, 22851, 10236, 234, -56>>, <<14573, 8302, 5686, 173, -56>>, <<32249, 5481, 20123, 227, -57>>, <<23911, 4263, 14824, 224, -58>>, <<0, 0, 0, 0, 0>>>>,
     <<<<16808, 2950, 26395, 232, -51>>, <<13100, 3081, 14552, 188, -51>>, <<16419, 4313, 16198, 162, -51>>, <<9393, 3212, 2709, 144, -51>>, <<31502, 5016, 26263, 129, -51>>, <<25422, 8888, 8710, 236, -52>>, <<10489, 15016, 17515, 216, -52>>, <<11370, 6686, 14500, 199, -52>>, <<32059, 11352, 12002, 184, -52>>, <<22821, 10295, 28840, 170, -52>>, <<5305, 14608, 22296, 158, -52>>, <<18006, 9150, 17792, 147, -52>>, <<27310, 27206, 9748, 137, -52>>, <<6148, 30556, 20426, 255, -53>>, <<26149, 25519, 31496, 237, -53>>, <<7908, 13896, 14396, 221, -53>>, <<2234, 7750, 30128, 205, -53>>, <<16520, 23229, 9400, 191, -53>>, <<14831, 32244, 14603, 177, -53>>, <<30811, 21114, 10308, 164, -53>>, <<19421, 2716, 27011, 151, -53>>, <<28547, 29739, 29988, 139, -53>>, <<14049, 16268, 17548, 128, -53>>, <<9596, 4881, 9193, 235, -54>>, <<9127, 23899, 12441, 214, -54>>, <<14043, 11570, 9787, 194, -54>>, <<26819, 23547, 31969, 174, -54>>, <<15401, 29391, 11645, 156, -54>>, <<7243, 8020, 12735, 138, -54>>, <<12501, 5869, 2035, 242, -55>>, <<25830, 9794, 15903, 208, -55>>, <<5076, 24911, 31937, 175, -55>>, <<3446, 7601, 15220, 144, -55>>, <<30294, 652, 25890, 227, -56>>, <<15446, 11475, 13881, 168, -56>>, <<27015, 19600, 15051, 221, -57>>, <<30069, 2169, 15279, 218, -58>>, <<0, 0, 0, 0, 0>>>>,
     <<<<3542, 20752, 15333, 234, -51>>, <<32602, 20882, 3490, 190, -51>>, <<3153, 22115, 5136, 164, -51>>, <<28895, 21013, 24415, 145, -51>>, <<18237, 22818, 15201, 131, -51>>, <<31658, 11723, 19355, 239, -52>>, <<16725, 17851, 28160, 219, -52>>, <<17606, 9521, 25145, 202, -52>>, <<5527, 14188, 22647, 187, -52>>, <<29057, 13130, 6717, 174, -52>>, <<11541, 17443, 173, 162, -52>>, <<24243, 11985, 28437, 150, -52>>, <<779, 30042, 20393, 140, -52>>, <<9309, 18113, 4474, 131, -52>>, <<5853, 31190, 20018, 244, -53>>, <<20380, 19566, 2918, 228, -53>>, <<14705, 13420, 18650, 212, -53>>, <<28991, 28899, 30690, 197, -53>>, <<27304, 5146, 3126, 184, -53>>, <<10516, 26785, 31598, 170, -53>>, <<31894, 8386, 15533, 158, -53>>, <<8251, 2642, 18511, 146, -53>>, <<26521, 21938, 6070, 135, -53>>, <<1773, 16222, 19005, 248, -54>>, <<1304, 2472, 22254, 227, -54>>, <<6220, 22911, 19599, 207, -54>>, <<18995, 2120, 9014, 188, -54>>, <<7575, 7964, 21458, 169, -54>>, <<32189, 19360, 22547, 151, -54>>, <<14812, 30659, 10829, 134, -54>>, <<10181, 32476, 2759, 235, -55>>, <<22196, 14824, 18794, 202, -55>>, <<20566, 30282, 2076, 171, -55>>, <<32264, 23007, 16185, 140, -55>>, <<16928, 24070, 20362, 221, -56>>, <<14974, 6011, 30391, 163, -56>>, <<1590, 9891, 20602, 215, -57>>, <<5916, 17612, 25925, 212, -58>>, <<0, 0, 0, 0, 0>>>>,
     <<<<29197, 30308, 2892, 236, -51>>, <<25489, 30439, 23817, 191, -51>>, <<28808, 31671, 25463, 165, -51>>, <<21782, 30570, 11974, 147, -51>>, <<11123, 32375, 2760, 133, -51>>, <<17432, 30837, 27241, 242, -52>>, <<2499, 4197, 3279, 223, -52>>, <<3379, 28635, 263, 206, -52>>, <<24069, 533, 30534, 190, -52>>, <<14831, 32244, 14603, 177, -52>>, <<30083, 3788, 8060, 165, -52>>, <<10017, 31099, 3555, 154, -52>>, <<19320, 16387, 28280, 143, -52>>, <<27851, 4458, 12361, 134, -52>>, <<10168, 3881, 3024, 251, -53>>, <<24696, 25025, 18691, 234, -53>>, <<19022, 18879, 1655, 219, -53>>, <<539, 1591, 13696, 204, -53>>, <<31618, 10605, 18899, 190, -53>>, <<14831, 32244, 14603, 177, -53>>, <<3440, 13846, 31306, 164, -53>>, <<12566, 8101, 1516, 153, -53>>, <<30836, 27397, 21843, 141, -53>>, <<5202, 29954, 25275, 130, -53>>, <<9935, 13390, 21032, 240, -54>>, <<14852, 1061, 18378, 220, -54>>, <<27625, 13038, 7792, 201, -54>>, <<16207, 18882, 20236, 182, -54>>, <<8052, 30279, 21325, 164, -54>>, <<23441, 8809, 9608, 147, -54>>, <<13721, 10772, 16542, 130, -54>>, <<6690, 3893, 16351, 228, -55>>, <<5059, 19351, 32401, 196, -55>>, <<16761, 12076, 13742, 166, -55>>, <<25722, 1103, 24122, 136, -55>>, <<16737, 16916, 25504, 215, -56>>, <<18945, 15850, 21798, 159, -56>>, <<6448, 14232, 3189, 210, -57>>, <<6992, 10852, 13221, 207, -58>>, <<0, 0, 0, 0, 0>>>>,
     <<<<11342, 2845, 21909, 237, -51>>, <<7634, 2976, 10066, 193, -51>>, <<10952, 4208, 11712, 167, -51>>, <<3926, 3107, 30991, 148, -51>>, <<26036, 4911, 21777, 134, -51>>, <<14489, 8678, 32506, 245, -52>>, <<32324, 14805, 8543, 226, -52>>, <<437, 6476, 5528, 209, -52>>, <<21126, 11142, 3030, 194, -52>>, <<11888, 10085, 19868, 180, -52>>, <<27140, 14397, 13324, 168, -52>>, <<7073, 8940, 8820, 157, -52>>, <<16377, 26996, 776, 147, -52>>, <<24908, 15067, 17625, 137, -52>>, <<18525, 12549, 23160, 128, -52>>, <<18810, 13475, 29220, 240, -53>>, <<13135, 7329, 12184, 225, -53>>, <<27421, 22808, 24224, 210, -53>>, <<25733, 31823, 29427, 196, -53>>, <<8945, 20694, 25132, 183, -53>>, <<30323, 2295, 9067, 171, -53>>, <<6680, 29319, 12044, 159, -53>>, <<24950, 15847, 32372, 147, -53>>, <<32083, 18403, 3036, 137, -53>>, <<30929, 23057, 9321, 253, -54>>, <<3078, 10729, 6667, 233, -54>>, <<15855, 22706, 28849, 213, -54>>, <<4434, 28550, 8525, 195, -54>>, <<29047, 7178, 9615, 177, -54>>, <<11671, 18477, 30665, 159, -54>>, <<1949, 20440, 4831, 143, -54>>, <<15915, 23228, 25697, 253, -55>>, <<14283, 5918, 8980, 222, -55>>, <<25983, 31411, 23088, 191, -55>>, <<2182, 20439, 700, 162, -55>>, <<17590, 27793, 5714, 133, -55>>, <<4623, 21753, 7723, 210, -56>>, <<21679, 29402, 20287, 155, -56>>, <<7646, 847, 27613, 204, -57>>, <<8238, 23610, 9236, 202, -58>>, <<0, 0, 0, 0, 0>>>>,
     <<<<15661, 10332, 6909, 239, -51>>, <<11953, 10463, 27834, 194, -51>>, <<15271, 11695, 29480, 168, -51>>, <<8245, 10594, 15991, 150, -51>>, <<30355, 12398, 6777, 136, -51>>, <<23127, 23652, 2506, 249, -52>>, <<8194, 29780, 11311, 229, -52>>, <<9075, 21450, 8296, 212, -52>>, <<29765, 26116, 5798, 197, -52>>, <<20527, 25059, 22636, 183, -52>>, <<3010, 29372, 16092, 171, -52>>, <<15712, 23914, 11588, 160, -52>>, <<25016, 9202, 3545, 150, -52>>, <<779, 30042, 20393, 140, -52>>, <<27163, 27523, 25928, 131, -52>>, <<3318, 10656, 1989, 247, -53>>, <<30412, 4509, 17721, 231, -53>>, <<11930, 19989, 29761, 216, -53>>, <<10242, 29004, 2196, 203, -53>>, <<26222, 17874, 30669, 189, -53>>, <<14831, 32244, 14603, 177, -53>>, <<23957, 26499, 17581, 165, -53>>, <<9458, 13028, 5141, 154, -53>>, <<16592, 15584, 8573, 143, -53>>, <<16357, 25093, 26581, 132, -53>>, <<4864, 5090, 17741, 245, -54>>, <<17639, 17067, 7155, 226, -54>>, <<6220, 22911, 19599, 207, -54>>, <<30832, 1539, 20689, 189, -54>>, <<13455, 12838, 8971, 172, -54>>, <<3733, 14801, 15905, 155, -54>>, <<9742, 22359, 7538, 139, -54>>, <<17851, 27408, 31127, 246, -55>>, <<29556, 20133, 12468, 216, -55>>, <<5749, 9161, 22848, 186, -55>>, <<21163, 16515, 27862, 157, -55>>, <<22263, 15982, 26009, 129, -55>>, <<28823, 6846, 31815, 204, -56>>, <<27340, 27019, 25333, 151, -56>>, <<18416, 32229, 27672, 199, -57>>, <<28562, 8080, 13341, 197, -58>>, <<0, 0, 0, 0, 0>>>>,
     <<<<27665, 11305, 23488, 240, -51>>, <<23957, 11436, 11645, 196, -51>>, <<27276, 12668, 13291, 170, -51>>, <<20249, 11567, 32570, 151, -51>>, <<9591, 13372, 23356, 137, -51>>, <<14368, 25599, 2896, 252, -52>>, <<32203, 31726, 11701, 232, -52>>, <<315, 23397, 8686, 215, -52>>, <<21005, 28063, 6188, 200, -52>>, <<11767, 27006, 23026, 186, -52>>, <<27019, 31318, 16482, 174, -52>>, <<6953, 25861, 11978, 163, -52>>, <<16256, 11149, 3935, 153, -52>>, <<24788, 31988, 20783, 143, -52>>, <<18404, 29470, 26318, 134, -52>>, <<18568, 14549, 2769, 253, -53>>, <<12893, 8403, 18501, 237, -53>>, <<27179, 23882, 30541, 222, -53>>, <<25490, 129, 2977, 209, -53>>, <<8703, 21768, 31449, 195, -53>>, <<30080, 3369, 15384, 183, -53>>, <<6438, 30393, 18361, 171, -53>>, <<24709, 16921, 5921, 160, -53>>, <<31842, 19477, 9353, 149, -53>>, <<31607, 28986, 27361, 138, -53>>, <<17681, 22822, 26034, 128, -53>>, <<15369, 24854, 8715, 238, -54>>, <<3952, 30698, 21159, 219, -54>>, <<28564, 9326, 22249, 201, -54>>, <<11186, 20625, 10531, 184, -54>>, <<1466, 22588, 17465, 167, -54>>, <<7473, 30146, 9098, 151, -54>>, <<6656, 5107, 17124, 135, -54>>, <<25014, 2939, 15589, 240, -55>>, <<1214, 24735, 25968, 210, -55>>, <<16622, 32089, 30982, 181, -55>>, <<17723, 31556, 29129, 153, -55>>, <<19737, 5226, 5288, 253, -56>>, <<18271, 25399, 31574, 199, -56>>, <<16508, 14494, 3693, 148, -56>>, <<28897, 17183, 2768, 195, -57>>, <<29202, 26286, 24963, 192, -58>>, <<0, 0, 0, 0, 0>>>>,
     <<<<21571, 28152, 6164, 242, -51>>, <<17864, 28283, 27089, 197, -51>>, <<21182, 29515, 28735, 171, -51>>, <<14156, 28414, 15246, 153, -51>>, <<3498, 30219, 6032, 139, -51>>, <<2180, 26525, 1017, 255, -52>>, <<20015, 32652, 9822, 235, -52>>, <<20896, 24322, 6807, 218, -52>>, <<8818, 28989, 4309, 203, -52>>, <<32348, 27931, 21147, 189, -52>>, <<14831, 32244, 14603, 177, -52>>, <<27533, 26786, 10099, 166, -52>>, <<4069, 12075, 2056, 156, -52>>, <<12600, 146, 18905, 146, -52>>, <<6216, 30396, 24439, 137, -52>>, <<13480, 24584, 15889, 129, -52>>, <<21287, 10254, 14743, 243, -53>>, <<2804, 25734, 26783, 228, -53>>, <<1116, 1981, 31987, 214, -53>>, <<17097, 23619, 27691, 201, -53>>, <<5706, 5221, 11626, 189, -53>>, <<14831, 32244, 14603, 177, -53>>, <<333, 18773, 2163, 166, -53>>, <<7466, 21329, 5595, 155, -53>>, <<7232, 30838, 23603, 144, -53>>, <<26074, 24673, 22276, 134, -53>>, <<32154, 28556, 1199, 250, -54>>, <<20736, 1632, 13644, 231, -54>>, <<12580, 13029, 14733, 213, -54>>, <<27971, 24327, 3015, 196, -54>>, <<18252, 26290, 9949, 179, -54>>, <<24258, 1080, 1583, 163, -54>>, <<23441, 8809, 9608, 147, -54>>, <<12911, 21556, 278, 132, -54>>, <<2014, 32140, 10936, 234, -55>>, <<17429, 6726, 15951, 205, -55>>, <<18532, 6193, 14098, 177, -55>>, <<10675, 10018, 3996, 150, -55>>, <<19872, 7441, 1511, 247, -56>>, <<18124, 29304, 6397, 195, -56>>, <<32441, 23401, 20472, 144, -56>>, <<17835, 26379, 17890, 190, -57>>, <<6442, 26472, 10817, 188, -58>>, <<0, 0, 0, 0, 0>>>>,
     <<<<18852, 27975, 20525, 243, -51>>, <<15144, 28106, 8682, 199, -51>>, <<18463, 29338, 10328, 173, -51>>, <<11437, 28237, 29607, 154, -51>>, <<779, 30042, 20393, 140, -51>>, <<14755, 29469, 31253, 128, -51>>, <<14577, 32298, 5776, 238, -52>>, <<15458, 23968, 2761, 221, -52>>, <<3379, 28635, 263, 206, -52>>, <<26910, 27577, 17101, 192, -52>>, <<9393, 31890, 10557, 180, -52>>, <<22095, 26432, 6053, 169, -52>>, <<31399, 11720, 30778, 158, -52>>, <<7162, 32560, 14858, 149, -52>>, <<779, 30042, 20393, 140, -52>>, <<8042, 24230, 11843, 132, -52>>, <<10410, 9546, 6651, 249, -53>>, <<24696, 25025, 18691, 234, -53>>, <<23007, 1272, 23895, 220, -53>>, <<6220, 22911, 19599, 207, -53>>, <<27597, 4512, 3534, 195, -53>>, <<3955, 31536, 6511, 183, -53>>, <<22225, 18064, 26839, 171, -53>>, <<29358, 20620, 30271, 160, -53>>, <<29124, 30129, 15511, 150, -53>>, <<15198, 23965, 14184, 140, -53>>, <<5202, 29954, 25275, 130, -53>>, <<31753, 215, 30228, 242, -54>>, <<23596, 11612, 31317, 224, -54>>, <<6220, 22911, 19599, 207, -54>>, <<29267, 24873, 26533, 190, -54>>, <<2506, 32432, 18166, 174, -54>>, <<1689, 7393, 26192, 158, -54>>, <<23925, 20139, 16862, 143, -54>>, <<12025, 14653, 22052, 128, -54>>, <<6690, 3893, 16351, 228, -55>>, <<7794, 3360, 14498, 200, -55>>, <<32702, 7184, 4396, 173, -55>>, <<15581, 17271, 17539, 146, -55>>, <<29414, 23637, 7197, 241, -56>>, <<10970, 17735, 21272, 190, -56>>, <<3823, 7523, 9745, 141, -56>>, <<25817, 18286, 7008, 186, -57>>, <<12408, 10101, 3199, 184, -58>>, <<0, 0, 0, 0, 0>>>>,
     <<<<17004, 31520, 1082, 245, -51>>, <<13296, 31651, 22007, 200, -51>>, <<16615, 115, 23654, 174, -51>>, <<9588, 31782, 10164, 156, -51>>, <<31698, 818, 951, 142, -51>>, <<12907, 246, 11811, 130, -51>>, <<10880, 6620, 32427, 240, -52>>, <<11761, 31058, 29411, 223, -52>>, <<32450, 2956, 26914, 208, -52>>, <<23212, 1899, 10984, 195, -52>>, <<5696, 6212, 4440, 183, -52>>, <<18398, 754, 32704, 171, -52>>, <<27702, 18810, 24660, 161, -52>>, <<3465, 6882, 8741, 152, -52>>, <<29850, 4363, 14276, 143, -52>>, <<4345, 31320, 5725, 135, -52>>, <<3017, 23726, 27183, 254, -53>>, <<17301, 6437, 6456, 240, -53>>, <<15613, 15452, 11659, 226, -53>>, <<31593, 4322, 7364, 213, -53>>, <<20204, 18692, 24066, 200, -53>>, <<29329, 12947, 27044, 188, -53>>, <<14831, 32244, 14603, 177, -53>>, <<21965, 2032, 18036, 166, -53>>, <<21730, 11541, 3276, 156, -53>>, <<7804, 5377, 1949, 146, -53>>, <<30576, 11365, 13040, 136, -53>>, <<16964, 28575, 5756, 254, -54>>, <<8809, 7204, 6846, 236, -54>>, <<24201, 18502, 27896, 218, -54>>, <<14479, 20465, 2062, 202, -54>>, <<20487, 28023, 26463, 185, -54>>, <<19672, 2984, 1721, 170, -54>>, <<9139, 15731, 25159, 154, -54>>, <<30004, 10244, 30349, 139, -54>>, <<9879, 27844, 176, 251, -55>>, <<10985, 27311, 31091, 222, -55>>, <<3129, 31136, 20989, 195, -55>>, <<18778, 8454, 1365, 169, -55>>, <<1513, 19386, 3808, 143, -55>>, <<17356, 101, 21692, 235, -56>>, <<10217, 22657, 10164, 186, -56>>, <<19281, 24277, 3923, 138, -56>>, <<2587, 18935, 2438, 182, -57>>, <<25519, 27768, 1677, 180, -58>>, <<0, 0, 0, 0, 0>>>>,
     <<<<28854, 24353, 13416, 246, -51>>, <<25147, 24484, 1573, 202, -51>>, <<28465, 25716, 3219, 176, -51>>, <<21439, 24615, 22498, 157, -51>>, <<10781, 26420, 13284, 143, -51>>, <<24757, 25847, 24144, 131, -51>>, <<1813, 25055, 24326, 243, -52>>, <<2694, 16725, 21311, 226, -52>>, <<23384, 21391, 18813, 211, -52>>, <<14146, 20334, 2883, 198, -52>>, <<29397, 24646, 29107, 185, -52>>, <<9331, 19189, 24603, 174, -52>>, <<18635, 4477, 16560, 164, -52>>, <<27166, 25316, 640, 155, -52>>, <<20783, 22798, 6175, 146, -52>>, <<28046, 16986, 30393, 137, -52>>, <<25209, 13913, 5491, 130, -52>>, <<31936, 10538, 23023, 245, -53>>, <<30248, 19553, 28226, 231, -53>>, <<13460, 8424, 23931, 218, -53>>, <<2070, 22794, 7865, 206, -53>>, <<11195, 17049, 10843, 194, -53>>, <<29466, 3577, 31171, 182, -53>>, <<3830, 6134, 1835, 172, -53>>, <<3595, 15643, 19843, 161, -53>>, <<22438, 9478, 18516, 151, -53>>, <<12442, 15467, 29607, 141, -53>>, <<6732, 18389, 19445, 132, -53>>, <<5308, 15407, 7212, 247, -54>>, <<20700, 26705, 28262, 229, -54>>, <<10979, 28668, 2428, 213, -54>>, <<16987, 3458, 26830, 196, -54>>, <<16172, 11187, 2087, 181, -54>>, <<5638, 23934, 25525, 165, -54>>, <<26502, 18447, 30715, 150, -54>>, <<1442, 22125, 16838, 136, -54>>, <<3983, 10949, 31824, 244, -55>>, <<28900, 14773, 21722, 217, -55>>, <<11775, 24860, 2097, 191, -55>>, <<27285, 3023, 4541, 165, -55>>, <<18056, 16456, 27962, 139, -55>>, <<28980, 22700, 11629, 230, -56>>, <<5285, 24321, 5388, 182, -56>>, <<3677, 9511, 2684, 135, -56>>, <<17548, 30355, 3768, 178, -57>>, <<9565, 174, 5860, 176, -58>>, <<0, 0, 0, 0, 0>>>>,
     <<<<15221, 30881, 24800, 247, -51>>, <<11513, 31012, 12957, 203, -51>>, <<14831, 32244, 14603, 177, -51>>, <<7805, 31143, 1114, 159, -51>>, <<29915, 179, 24669, 144, -51>>, <<11123, 32375, 2760, 133, -51>>, <<7313, 5342, 14327, 246, -52>>, <<8194, 29780, 11311, 229, -52>>, <<28884, 1678, 8814, 214, -52>>, <<19646, 621, 25652, 200, -52>>, <<2129, 4934, 19108, 188, -52>>, <<14831, 32244, 14603, 177, -52>>, <<24135, 17532, 6560, 167, -52>>, <<32666, 5603, 23409, 157, -52>>, <<26283, 3085, 28944, 148, -52>>, <<779, 30042, 20393, 140, -52>>, <<30710, 26968, 28259, 132, -52>>, <<10168, 3881, 3024, 251, -53>>, <<8480, 12896, 8227, 237, -53>>, <<24460, 1766, 3932, 224, -53>>, <<13070, 16136, 20634, 211, -53>>, <<22195, 10391, 23612, 199, -53>>, <<7698, 29688, 11171, 188, -53>>, <<14831, 32244, 14603, 177, -53>>, <<14596, 8985, 32612, 166, -53>>, <<671, 2821, 31285, 156, -53>>, <<23442, 8809, 9608, 147, -53>>, <<17732, 11731, 32214, 137, -53>>, <<30039, 1045, 32759, 128, -53>>, <<9935, 13390, 21032, 240, -54>>, <<212, 15353, 27966, 223, -54>>, <<6220, 22911, 19599, 207, -54>>, <<5404, 30640, 27624, 191, -54>>, <<27640, 10618, 18295, 176, -54>>, <<15737, 5132, 23485, 161, -54>>, <<23441, 8809, 9608, 147, -54>>, <<7611, 24927, 8681, 133, -54>>, <<7362, 20911, 7261, 239, -55>>, <<23013, 30997, 20404, 212, -55>>, <<5749, 9161, 22848, 186, -55>>, <<29291, 22593, 13501, 161, -55>>, <<25722, 1103, 24122, 136, -55>>, <<27756, 3827, 9235, 225, -56>>, <<26145, 21785, 6530, 178, -56>>, <<14854, 27452, 5730, 132, -56>>, <<16935, 24636, 10622, 174, -57>>, <<24317, 16330, 15385, 172, -58>>, <<0, 0, 0, 0, 0>>>>,
     <<<<23127, 23652, 2506, 249, -51>>, <<19420, 23783, 23431, 204, -51>>, <<22738, 25015, 25077, 178, -51>>, <<15712, 23914, 11588, 160, -51>>, <<5054, 25719, 2374, 146, -51>>, <<19030, 25146, 13234, 134, -51>>, <<23127, 23652, 2506, 249, -52>>, <<24008, 15322, 32259, 231, -52>>, <<11930, 19989, 29761, 216, -52>>, <<2692, 18932, 13831, 203, -52>>, <<17943, 23244, 7287, 191, -52>>, <<30645, 17786, 2783, 180, -52>>, <<7181, 3075, 27508, 169, -52>>, <<15712, 23914, 11588, 160, -52>>, <<9329, 21396, 17123, 151, -52>>, <<16592, 15584, 8573, 143, -52>>, <<13755, 12511, 16439, 135, -52>>, <<4514, 20251, 6075, 128, -52>>, <<7340, 16749, 17354, 242, -53>>, <<23321, 5619, 13059, 229, -53>>, <<11930, 19989, 29761, 216, -53>>, <<21054, 14244, 32739, 204, -53>>, <<6558, 773, 20299, 193, -53>>, <<13690, 3329, 23731, 182, -53>>, <<13455, 12838, 8971, 172, -53>>, <<32298, 6673, 7644, 162, -53>>, <<22302, 12662, 18735, 152, -53>>, <<16592, 15584, 8573, 143, -53>>, <<28899, 4898, 9118, 134, -53>>, <<7652, 21096, 6518, 251, -54>>, <<30698, 23058, 13452, 234, -54>>, <<3939, 30617, 5085, 218, -54>>, <<3123, 5578, 13111, 202, -54>>, <<25358, 18324, 3781, 187, -54>>, <<13455, 12838, 8971, 172, -54>>, <<21162, 16515, 27862, 157, -54>>, <<5329, 32633, 26935, 143, -54>>, <<17785, 1777, 5501, 130, -54>>, <<18448, 13641, 24145, 233, -55>>, <<1190, 24573, 26588, 207, -55>>, <<24729, 5237, 17242, 182, -55>>, <<21163, 16515, 27862, 157, -55>>, <<25701, 941, 24742, 133, -55>>, <<17018, 19841, 14011, 220, -56>>, <<5723, 25508, 13211, 174, -56>>, <<32116, 10373, 12792, 129, -56>>, <<26695, 20660, 22654, 170, -57>>, <<29013, 24990, 29923, 168, -58>>, <<0, 0, 0, 0, 0>>>>,
     <<<<7087, 28504, 12106, 250, -51>>, <<3379, 28635, 263, 206, -51>>, <<6698, 29867, 1909, 180, -51>>, <<32440, 28765, 21188, 161, -51>>, <<21782, 30570, 11974, 147, -51>>, <<2990, 29998, 22834, 135, -51>>, <<23815, 587, 21707, 251, -52>>, <<24696, 25025, 18691, 234, -52>>, <<12617, 29692, 16193, 219, -52>>, <<3379, 28635, 263, 206, -52>>, <<18631, 179, 26488, 193, -52>>, <<31333, 27489, 21983, 182, -52>>, <<7869, 12778, 13940, 172, -52>>, <<16400, 849, 30789, 162, -52>>, <<10017, 31099, 3555, 154, -52>>, <<17280, 25287, 27773, 145, -52>>, <<14443, 22214, 2871, 138, -52>>, <<5201, 29954, 25275, 130, -52>>, <<8716, 3387, 22987, 247, -53>>, <<24696, 25025, 18691, 234, -53>>, <<13305, 6627, 2626, 222, -53>>, <<22432, 882, 5604, 210, -53>>, <<7932, 20179, 25931, 198, -53>>, <<15067, 22735, 29363, 187, -53>>, <<14831, 32244, 14603, 177, -53>>, <<906, 26080, 13276, 167, -53>>, <<23677, 32068, 24367, 157, -53>>, <<17968, 2222, 14206, 148, -53>>, <<30273, 24304, 14750, 139, -53>>, <<5202, 29954, 25275, 130, -53>>, <<681, 29103, 24717, 244, -54>>, <<6690, 3893, 16351, 228, -54>>, <<5873, 11622, 24376, 212, -54>>, <<28110, 24368, 15046, 197, -54>>, <<16207, 18882, 20236, 182, -54>>, <<23912, 22559, 6359, 168, -54>>, <<8080, 5909, 5433, 154, -54>>, <<20537, 7821, 16766, 140, -54>>, <<23954, 25729, 13907, 254, -55>>, <<6690, 3893, 16351, 228, -55>>, <<30232, 17325, 7004, 203, -55>>, <<26663, 28603, 17624, 178, -55>>, <<31204, 13029, 14504, 154, -55>>, <<30402, 5624, 29536, 130, -55>>, <<16737, 16916, 25504, 215, -56>>, <<10344, 1782, 25085, 170, -56>>, <<15925, 3477, 14472, 253, -57>>, <<3768, 11696, 6779, 167, -57>>, <<11256, 31169, 16402, 165, -58>>, <<0, 0, 0, 0, 0>>>>,
     <<<<255, 32418, 20867, 251, -51>>, <<29315, 32548, 9024, 207, -51>>, <<32634, 1012, 10671, 181, -51>>, <<25607, 32679, 29949, 162, -51>>, <<14949, 1716, 20736, 148, -51>>, <<28926, 1143, 31596, 136, -51>>, <<10151, 8415, 6461, 254, -52>>, <<11031, 85, 3446, 237, -52>>, <<31721, 4751, 948, 222, -52>>, <<22483, 3694, 17786, 208, -52>>, <<4967, 8007, 11242, 196, -52>>, <<17668, 2549, 6738, 185, -52>>, <<26972, 20605, 31462, 174, -52>>, <<2735, 8677, 15543, 165, -52>>, <<29120, 6158, 21078, 156, -52>>, <<3616, 347, 12528, 148, -52>>, <<779, 30042, 20393, 140, -52>>, <<24306, 5013, 10030, 133, -52>>, <<14154, 19042, 25263, 252, -53>>, <<30135, 7912, 20968, 239, -53>>, <<18744, 22282, 4902, 227, -53>>, <<27871, 16537, 7880, 215, -53>>, <<13373, 3066, 28208, 203, -53>>, <<20506, 5622, 31640, 192, -53>>, <<20271, 15131, 16880, 182, -53>>, <<6345, 8967, 15553, 172, -53>>, <<29117, 14955, 26644, 162, -53>>, <<23407, 17877, 16482, 153, -53>>, <<2945, 7192, 17027, 144, -53>>, <<10641, 12841, 27552, 135, -53>>, <<11562, 27645, 29270, 254, -54>>, <<17569, 2435, 20904, 238, -54>>, <<16752, 10164, 28929, 222, -54>>, <<6220, 22911, 19599, 207, -54>>, <<27085, 17424, 24789, 192, -54>>, <<2024, 21102, 10912, 178, -54>>, <<18958, 4451, 9986, 164, -54>>, <<31414, 6363, 21319, 150, -54>>, <<6471, 27791, 11506, 137, -54>>, <<28445, 977, 25457, 248, -55>>, <<19223, 14410, 16110, 223, -55>>, <<15651, 25688, 26730, 198, -55>>, <<20196, 10114, 23610, 174, -55>>, <<19391, 2709, 5874, 151, -55>>, <<30124, 5542, 5474, 128, -55>>, <<21099, 28719, 10528, 211, -56>>, <<2322, 28676, 9063, 167, -56>>, <<25254, 34, 10435, 248, -57>>, <<10744, 3923, 28241, 163, -57>>, <<10230, 9445, 7311, 162, -58>>, <<0, 0, 0, 0, 0>>>>,
     <<<<10569, 21853, 28822, 252, -51>>, <<6861, 21984, 16979, 208, -51>>, <<10179, 23216, 18625, 182, -51>>, <<3153, 22115, 5136, 164, -51>>, <<25263, 23919, 28690, 149, -51>>, <<6471, 23347, 6782, 138, -51>>, <<31773, 10026, 11185, 128, -51>>, <<31658, 11723, 19355, 239, -52>>, <<19580, 16390, 16857, 224, -52>>, <<10342, 15333, 927, 211, -52>>, <<25594, 19645, 27151, 198, -52>>, <<5527, 14188, 22647, 187, -52>>, <<14831, 32244, 14603, 177, -52>>, <<23362, 20315, 31452, 167, -52>>, <<16979, 17797, 4219, 159, -52>>, <<24243, 11985, 28437, 150, -52>>, <<21405, 8912, 3535, 143, -52>>, <<12164, 16652, 25939, 135, -52>>, <<27704, 4775, 28541, 128, -52>>, <<5853, 31190, 20018, 244, -53>>, <<27231, 12791, 3953, 232, -53>>, <<3589, 7047, 6931, 220, -53>>, <<21858, 26343, 27258, 208, -53>>, <<28991, 28899, 30690, 197, -53>>, <<28757, 5640, 15931, 187, -53>>, <<14831, 32244, 14603, 177, -53>>, <<4834, 5465, 25695, 167, -53>>, <<31894, 8386, 15533, 158, -53>>, <<11432, 30469, 16077, 149, -53>>, <<19127, 3350, 26603, 140, -53>>, <<30651, 4331, 13686, 132, -53>>, <<1773, 16222, 19005, 248, -54>>, <<956, 23951, 27030, 232, -54>>, <<23191, 3929, 17701, 217, -54>>, <<11290, 31211, 22890, 202, -54>>, <<18995, 2120, 9014, 188, -54>>, <<3164, 18238, 8087, 174, -54>>, <<15619, 20150, 19420, 160, -54>>, <<23441, 8809, 9608, 147, -54>>, <<14812, 30659, 10829, 134, -54>>, <<20399, 9215, 12313, 243, -55>>, <<16831, 20493, 22933, 218, -55>>, <<21366, 4919, 19813, 194, -55>>, <<20566, 30282, 2076, 171, -55>>, <<31297, 347, 1677, 148, -55>>, <<23443, 18329, 2934, 251, -56>>, <<4683, 18286, 1469, 207, -56>>, <<14974, 6011, 30391, 163, -56>>, <<15450, 15911, 13052, 243, -57>>, <<26205, 326, 21235, 160, -57>>, <<9388, 23976, 2390, 159, -58>>, <<0, 0, 0, 0, 0>>>>,
     <<<<15531, 20548, 3233, 254, -51>>, <<11823, 20679, 24158, 209, -51>>, <<15142, 21911, 25804, 183, -51>>, <<8115, 20810, 12315, 165, -51>>, <<30225, 22614, 3101, 151, -51>>, <<11434, 22042, 13961, 139, -51>>, <<3967, 8722, 18364, 129, -51>>, <<8815, 9114, 945, 242, -52>>, <<29505, 13780, 31215, 226, -52>>, <<20266, 12723, 15285, 213, -52>>, <<2750, 17036, 8741, 201, -52>>, <<15452, 11578, 4237, 190, -52>>, <<24755, 29634, 28961, 179, -52>>, <<518, 17706, 13042, 170, -52>>, <<26903, 15187, 18577, 161, -52>>, <<1399, 9376, 10027, 153, -52>>, <<31330, 6302, 17893, 145, -52>>, <<22089, 14042, 7529, 138, -52>>, <<4860, 2166, 10131, 131, -52>>, <<25701, 25970, 15966, 249, -53>>, <<14311, 7572, 32669, 236, -53>>, <<23437, 1827, 2879, 225, -53>>, <<8939, 21124, 23206, 213, -53>>, <<16073, 23680, 26638, 202, -53>>, <<15838, 421, 11879, 192, -53>>, <<1911, 27025, 10551, 182, -53>>, <<24684, 245, 21643, 172, -53>>, <<18973, 3167, 11481, 163, -53>>, <<31280, 25249, 12025, 154, -53>>, <<6207, 30899, 22550, 145, -53>>, <<17731, 31880, 9633, 137, -53>>, <<20735, 19275, 5450, 129, -53>>, <<7884, 13512, 18926, 242, -54>>, <<30121, 26258, 9596, 227, -54>>, <<18218, 20772, 14786, 212, -54>>, <<25925, 24449, 909, 198, -54>>, <<10092, 7799, 32751, 183, -54>>, <<22546, 9711, 11316, 170, -54>>, <<30372, 31138, 1503, 157, -54>>, <<21740, 20220, 2725, 144, -54>>, <<745, 10553, 14436, 131, -54>>, <<30686, 32383, 6724, 238, -55>>, <<2457, 16810, 3604, 214, -55>>, <<1655, 9405, 18636, 190, -55>>, <<12392, 12238, 18236, 167, -55>>, <<9198, 21055, 1642, 145, -55>>, <<32393, 9298, 1820, 246, -56>>, <<9931, 29792, 30741, 202, -56>>, <<19058, 31736, 23260, 160, -56>>, <<16102, 15120, 21936, 238, -57>>, <<27378, 26781, 18280, 157, -57>>, <<12538, 29587, 1402, 156, -58>>, <<0, 0, 0, 0, 0>>>>,
     <<<<4876, 28548, 9665, 255, -51>>, <<1168, 28679, 30590, 210, -51>>, <<4486, 29911, 32236, 184, -51>>, <<30228, 28809, 18747, 166, -51>>, <<19570, 30614, 9533, 152, -51>>, <<779, 30042, 20393, 140, -51>>, <<26080, 16721, 24796, 130, -51>>, <<20273, 25113, 13809, 244, -52>>, <<8194, 29780, 11311, 229, -52>>, <<31725, 28722, 28149, 215, -52>>, <<14208, 267, 21606, 203, -52>>, <<26910, 27577, 17101, 192, -52>>, <<3446, 12866, 9058, 182, -52>>, <<11977, 937, 25907, 172, -52>>, <<5593, 31187, 31441, 163, -52>>, <<12857, 25375, 22891, 155, -52>>, <<10020, 22302, 30757, 147, -52>>, <<779, 30042, 20393, 140, -52>>, <<16318, 18165, 22995, 133, -52>>, <<15850, 25201, 8927, 254, -53>>, <<4460, 6803, 25630, 241, -53>>, <<13585, 1058, 28608, 229, -53>>, <<31855, 20354, 16167, 218, -53>>, <<6220, 22911, 19599, 207, -53>>, <<5986, 32420, 4839, 197, -53>>, <<24828, 26255, 3512, 187, -53>>, <<14831, 32244, 14603, 177, -53>>, <<9122, 2398, 4442, 168, -53>>, <<21428, 24480, 4986, 159, -53>>, <<29124, 30129, 15511, 150, -53>>, <<7879, 31111, 2594, 142, -53>>, <<10883, 18506, 31179, 133, -53>>, <<20951, 11973, 4848, 252, -54>>, <<10416, 24720, 28286, 236, -54>>, <<31283, 19233, 708, 222, -54>>, <<6220, 22911, 19599, 207, -54>>, <<23155, 6260, 18673, 193, -54>>, <<2843, 8173, 30006, 179, -54>>, <<10667, 29600, 20193, 166, -54>>, <<2038, 18682, 21415, 153, -54>>, <<13809, 9014, 358, 141, -54>>, <<12025, 14653, 22052, 128, -54>>, <<28586, 13732, 8216, 233, -55>>, <<27782, 6327, 23248, 209, -55>>, <<5749, 9161, 22848, 186, -55>>, <<2561, 17978, 6254, 164, -55>>, <<9561, 1572, 5522, 142, -55>>, <<29414, 23637, 7197, 241, -56>>, <<5764, 25582, 32484, 198, -56>>, <<27540, 1405, 20192, 157, -56>>, <<807, 14473, 3960, 234, -57>>, <<28882, 2484, 19149, 154, -57>>, <<12413, 8150, 4127, 153, -58>>, <<0, 0, 0, 0, 0>>>>>>

\* idf = 0 if token_df == 0 or page_count == 0 else math.log(page_count / token_df)
Idf(n_pages, token_df) ==
  IF token_df = 0 \/ n_pages = 0 THEN Zero ELSE AsFloat(LogOfRatio[n_pages][token_df])

\* HTML_TAGS_WEIGHTS[tag] * (1 + log) * idf, with log = 0 for frequency 0.
TagScore(tag, frequency, idf) ==
  LET log == IF frequency = 0 THEN Zero ELSE AsFloat(LogOfFrequency[frequency])
  IN FloatMul(FloatMul(HTML_TAGS_WEIGHTS[tag], FloatAdd(FloatOfInt(1), log)), idf)

\* The keys of tag_frequencies in the order _add_page received them from
\* the tokenizer: the weighted tags, then "other".
TagOrder == <<"h1", "h2", "h3", "title", "b", "strong", "other">>

\* tfidf after the loop over posting.tag_frequencies.items(), from tfidf = 0.
RECURSIVE SumTagScores(_, _, _, _)
SumTagScores(tfidf, tags, tf, idf) ==
  IF tags = <<>> THEN tfidf
  ELSE SumTagScores(FloatAdd(tfidf, TagScore(Head(tags), tf[Head(tags)], idf)),
                    Tail(tags), tf, idf)

TfIdf(posting, idf) == SumTagScores(Zero, TagOrder, posting.tag_frequencies, idf)

\* doc_scores after the postings of one token: ds is a sequence of
\* [doc, scores] in insertion order, scores a map token -> score.
ScorePosting(ds, p, token, idf) ==
  LET at == {i \in 1..Len(ds) : ds[i].doc = p.doc_id}
  IN IF at = {}
     THEN Append(ds, [doc |-> p.doc_id, scores |-> MapPut(EmptyMap, token, TfIdf(p, idf))])
     ELSE LET i == CHOOSE j \in at : TRUE
              old == IF token \in DOMAIN ds[i].scores THEN ds[i].scores[token] ELSE Zero
          IN [ds EXCEPT ![i].scores = MapPut(ds[i].scores, token, FloatAdd(old, TfIdf(p, idf)))]

\* The loop over the postings at positions first..last, in order (the range
\* is halved to bound the depth of evaluation).
RECURSIVE ScorePostingRange(_, _, _, _, _, _)
ScorePostingRange(ds, postings, first, last, token, idf) ==
  IF first > last THEN ds
  ELSE IF first = last THEN ScorePosting(ds, postings[first], token, idf)
  ELSE LET mid == (first + last) \div 2
           done == ScorePostingRange(ds, postings, first, mid, token, idf)
       IN Then(done, ScorePostingRange(done, postings, mid + 1, last, token, idf))

ScorePostings(ds, postings, token, idf) ==
  ScorePostingRange(ds, postings, 1, Len(postings), token, idf)

\* The loop over query_tokens, taken in the iteration order `order`.
\* st carries doc_scores and the first exception raised by index[token].
RECURSIVE ScoreTokens(_, _, _, _, _, _)
ScoreTokens(st, order, ranges, disks, fs, n_pages) ==
  IF order = <<>> \/ st.raised # "" THEN st
  ELSE LET token == Head(order)
           r == GetItem(ranges, disks, fs, token)
       IN IF r.raised # "" THEN [st EXCEPT !.raised = r.raised]
          ELSE ScoreTokens(
                 [st EXCEPT !.ds = ScorePostings(st.ds, r.value.postings, token,
                                                 Idf(n_pages, r.value.df))],
                 Tail(order), ranges, disks, fs, n_pages)

\* sum(entries.values()): the entries of a document in the order in which
\* its tokens were scored, added to the total one after the other, from 0.
RECURSIVE SumScores(_, _, _)
SumScores(total, scores, order) ==
  IF order = <<>> THEN total
  ELSE SumScores(IF Head(order) \in DOMAIN scores THEN FloatAdd(total, scores[Head(order)])
                 ELSE total,
                 scores, Tail(order))

\* sorted(items, key = score, reverse = True): stable, descending.  The
\* elements of seq are placed into the sorted sequence acc; an element goes
\* behind every element of a larger or equal score that precedes it.
SortByScore(seq, acc) ==
  LET all == acc \o seq
      Before(j, i) == FloatLess(all[i].score, all[j].score)
                      \/ (~FloatLess(all[j].score, all[i].score) /\ j < i)
      place == [i \in 1..Len(all) |-> 1 + Cardinality({j \in 1..Len(all) : Before(j, i)})]
  IN Then(place, [k \in 1..Len(all) |-> all[CHOOSE i \in 1..Len(all) : place[i] = k]])

TopK == 50

\* Variant of Prefix that keeps the whole sequence.
PrefixAll(seq, n) == seq

\* seq[:n]
Prefix(seq, n) == SubSeq(seq, 1, IF Len(seq) < n THEN Len(seq) ELSE n)

\* The sums of _cosine_similarity(query, doc_id): the numerator and the two
\* sums of squares under the root.
RECURSIVE DotProduct(_, _, _)
DotProduct(qv, dv, keys) ==
  IF keys = {} THEN 0
  ELSE LET k == CHOOSE x \in keys : TRUE
       IN (IF k \in DOMAIN qv /\ k \in DOMAIN dv THEN qv[k] * dv[k] ELSE 0)
          + DotProduct(qv, dv, keys \ {k})

RECURSIVE SquaredNorm(_, _)
SquaredNorm(v, keys) ==
  IF keys = {} THEN 0
  ELSE LET k == CHOOSE x \in keys : TRUE IN v[k] * v[k] + SquaredNorm(v, keys \ {k})

Cosine(query, dv) ==
  LET qv == WordFrequencies(query)
  IN [num |-> DotProduct(qv, dv, DOMAIN qv \cup DOMAIN dv),
      qq |-> SquaredNorm(qv, DOMAIN qv),
      dd |-> SquaredNorm(dv, DOMAIN dv)]

\* numerator / math.sqrt(product): row product = 1, 2, ... holds the
\* quotients of numerator = 0, 1, ...
CosineQuotient ==
  <<<<<<0, 0, 0, 0, 0>>, <<0, 0, 0, 128, -52>>, <<0, 0, 0, 128, -51>>, <<0, 0, 0, 192, -51>>, <<0, 0, 0, 128, -50>>, <<0, 0, 0, 160, -50>>, <<0, 0, 0, 192, -50>>>>,
     <<<<0, 0, 0, 0, 0>>, <<15308, 19710, 633, 181, -53>>, <<15308, 19710, 633, 181, -52>>, <<27865, 6590, 25051, 135, -51>>, <<15308, 19710, 633, 181, -51>>, <<2751, 62, 8984, 226, -51>>, <<27865, 6590, 25051, 135, -50>>>>,
     <<<<0, 0, 0, 0, 0>>, <<13085, 2848, 26269, 147, -53>>, <<13085, 2848, 26269, 147, -52>>, <<19627, 20656, 23019, 221, -52>>, <<13085, 2848, 26269, 147, -51>>, <<16356, 11752, 24644, 184, -51>>, <<19627, 20656, 23019, 221, -51>>>>,
     <<<<0, 0, 0, 0, 0>>, <<0, 0, 0, 128, -53>>, <<0, 0, 0, 128, -52>>, <<0, 0, 0, 192, -52>>, <<0, 0, 0, 128, -51>>, <<0, 0, 0, 160, -51>>, <<0, 0, 0, 192, -51>>>>,
     <<<<0, 0, 0, 0, 0>>, <<28121, 2943, 31895, 228, -54>>, <<28121, 2943, 31895, 228, -53>>, <<29283, 10399, 23921, 171, -52>>, <<28121, 2943, 31895, 228, -52>>, <<29864, 14127, 3550, 143, -51>>, <<29283, 10399, 23921, 171, -51>>>>,
     <<<<0, 0, 0, 0, 0>>, <<11327, 24600, 757, 209, -54>>, <<11327, 24600, 757, 209, -53>>, <<8495, 10258, 25144, 156, -52>>, <<11327, 24600, 757, 209, -52>>, <<7079, 19471, 20953, 130, -51>>, <<8495, 10258, 25144, 156, -51>>>>,
     <<<<0, 0, 0, 0, 0>>, <<30694, 19791, 16967, 193, -54>>, <<30694, 19791, 16967, 193, -53>>, <<31213, 23035, 4533, 145, -52>>, <<30694, 19791, 16967, 193, -52>>, <<30176, 16547, 29401, 241, -52>>, <<31213, 23035, 4533, 145, -51>>>>,
     <<<<0, 0, 0, 0, 0>>, <<15308, 19710, 633, 181, -54>>, <<15308, 19710, 633, 181, -53>>, <<27865, 6590, 25051, 135, -52>>, <<15308, 19710, 633, 181, -52>>, <<2751, 62, 8984, 226, -52>>, <<27865, 6590, 25051, 135, -51>>>>,
     <<<<0, 0, 0, 0, 0>>, <<21845, 10922, 21845, 170, -54>>, <<21845, 10922, 21845, 170, -53>>, <<0, 0, 0, 128, -52>>, <<21845, 10922, 21845, 170, -52>>, <<10923, 21845, 10922, 213, -52>>, <<0, 0, 0, 128, -51>>>>,
     <<<<0, 0, 0, 0, 0>>, <<18703, 17552, 29773, 161, -54>>, <<18703, 17552, 29773, 161, -53>>, <<28054, 9944, 28276, 242, -53>>, <<18703, 17552, 29773, 161, -52>>, <<23378, 30132, 12640, 202, -52>>, <<28054, 9944, 28276, 242, -52>>>>,
     <<<<0, 0, 0, 0, 0>>, <<26662, 31274, 12248, 154, -54>>, <<26662, 31274, 12248, 154, -53>>, <<7225, 14144, 18373, 231, -53>>, <<26662, 31274, 12248, 154, -52>>, <<16943, 6325, 31695, 192, -52>>, <<7225, 14144, 18373, 231, -52>>>>,
     <<<<0, 0, 0, 0, 0>>, <<13085, 2848, 26269, 147, -54>>, <<13085, 2848, 26269, 147, -53>>, <<19627, 20656, 23019, 221, -53>>, <<13085, 2848, 26269, 147, -52>>, <<16356, 11752, 24644, 184, -52>>, <<19627, 20656, 23019, 221, -52>>>>,
     <<<<0, 0, 0, 0, 0>>, <<26774, 16503, 106, 142, -54>>, <<26774, 16503, 106, 142, -53>>, <<23777, 24755, 159, 213, -53>>, <<26774, 16503, 106, 142, -52>>, <<25276, 4245, 16517, 177, -52>>, <<23777, 24755, 159, 213, -52>>>>,
     <<<<0, 0, 0, 0, 0>>, <<9258, 19136, 27451, 136, -54>>, <<9258, 19136, 27451, 136, -53>>, <<13887, 12320, 8409, 205, -53>>, <<9258, 19136, 27451, 136, -52>>, <<11572, 15728, 1546, 171, -52>>, <<13887, 12320, 8409, 205, -52>>>>,
     <<<<0, 0, 0, 0, 0>>, <<30426, 17833, 6482, 132, -54>>, <<30426, 17833, 6482, 132, -53>>, <<29256, 26750, 9723, 198, -53>>, <<30426, 17833, 6482, 132, -52>>, <<13457, 5908, 8103, 165, -52>>, <<29256, 26750, 9723, 198, -52>>>>,
     <<<<0, 0, 0, 0, 0>>, <<0, 0, 0, 128, -54>>, <<0, 0, 0, 128, -53>>, <<0, 0, 0, 192, -53>>, <<0, 0, 0, 128, -52>>, <<0, 0, 0, 160, -52>>, <<0, 0, 0, 192, -52>>>>,
     <<<<0, 0, 0, 0, 0>>, <<12060, 4517, 11681, 248, -55>>, <<12060, 4517, 11681, 248, -54>>, <<853, 27964, 8760, 186, -53>>, <<12060, 4517, 11681, 248, -53>>, <<11634, 23303, 7300, 155, -52>>, <<853, 27964, 8760, 186, -52>>>>,
     <<<<0, 0, 0, 0, 0>>, <<31335, 15357, 11767, 241, -55>>, <<31335, 15357, 11767, 241, -54>>, <<15309, 19710, 633, 181, -53>>, <<31335, 15357, 11767, 241, -53>>, <<23680, 21886, 27834, 150, -52>>, <<15309, 19710, 633, 181, -52>>>>,
     <<<<0, 0, 0, 0, 0>>, <<14646, 21033, 30202, 234, -55>>, <<14646, 21033, 30202, 234, -54>>, <<2792, 32159, 6267, 176, -53>>, <<14646, 21033, 30202, 234, -53>>, <<29634, 21337, 27068, 146, -52>>, <<2792, 32159, 6267, 176, -52>>>>,
     <<<<0, 0, 0, 0, 0>>, <<28121, 2943, 31895, 228, -55>>, <<28121, 2943, 31895, 228, -54>>, <<29283, 10399, 23921, 171, -53>>, <<28121, 2943, 31895, 228, -53>>, <<29864, 14127, 3550, 143, -52>>, <<29283, 10399, 23921, 171, -52>>>>,
     <<<<0, 0, 0, 0, 0>>, <<7225, 11767, 14913, 223, -55>>, <<7225, 11767, 14913, 223, -54>>, <<13611, 633, 19377, 167, -53>>, <<7225, 11767, 14913, 223, -53>>, <<16804, 27834, 21608, 139, -52>>, <<13611, 633, 19377, 167, -52>>>>,
     <<<<0, 0, 0, 0, 0>>, <<5455, 30779, 10404, 218, -55>>, <<5455, 30779, 10404, 218, -54>>, <<12284, 23084, 24187, 163, -53>>, <<5455, 30779, 10404, 218, -53>>, <<32082, 2852, 14695, 136, -52>>, <<12284, 23084, 24187, 163, -52>>>>,
     <<<<0, 0, 0, 0, 0>>, <<21402, 23838, 16998, 213, -55>>, <<21402, 23838, 16998, 213, -54>>, <<32436, 1494, 4557, 160, -53>>, <<21402, 23838, 16998, 213, -53>>, <<5184, 6707, 14720, 133, -52>>, <<32436, 1494, 4557, 160, -52>>>>,
     <<<<0, 0, 0, 0, 0>>, <<11327, 24600, 757, 209, -55>>, <<11327, 24600, 757, 209, -54>>, <<8495, 10258, 25144, 156, -53>>, <<11327, 24600, 757, 209, -53>>, <<7079, 19471, 20953, 130, -52>>, <<8495, 10258, 25144, 156, -52>>>>,
     <<<<0, 0, 0, 0, 0>>, <<6554, 13107, 26214, 204, -55>>, <<6554, 13107, 26214, 204, -54>>, <<13107, 26214, 19660, 153, -53>>, <<6554, 13107, 26214, 204, -53>>, <<0, 0, 0, 128, -52>>, <<13107, 26214, 19660, 153, -52>>>>,
     <<<<0, 0, 0, 0, 0>>, <<30236, 17058, 26965, 200, -55>>, <<30236, 17058, 26965, 200, -54>>, <<6293, 4602, 20224, 150, -53>>, <<30236, 17058, 26965, 200, -53>>, <<21411, 29515, 938, 251, -53>>, <<6293, 4602, 20224, 150, -52>>>>,
     <<<<0, 0, 0, 0, 0>>, <<17446, 14720, 2257, 197, -55>>, <<17446, 14720, 2257, 197, -54>>, <<13084, 2848, 26269, 147, -53>>, <<17446, 14720, 2257, 197, -53>>, <<21807, 26592, 11013, 246, -53>>, <<13084, 2848, 26269, 147, -52>>>>,
     <<<<0, 0, 0, 0, 0>>, <<30694, 19791, 16967, 193, -55>>, <<30694, 19791, 16967, 193, -54>>, <<31213, 23035, 4533, 145, -53>>, <<30694, 19791, 16967, 193, -53>>, <<30176, 16547, 29401, 241, -53>>, <<31213, 23035, 4533, 145, -52>>>>,
     <<<<0, 0, 0, 0, 0>>, <<15240, 19581, 4981, 190, -55>>, <<15240, 19581, 4981, 190, -54>>, <<3238, 6494, 20120, 142, -53>>, <<15240, 19581, 4981, 190, -53>>, <<27243, 32668, 22610, 237, -53>>, <<3238, 6494, 20120, 142, -52>>>>,
     <<<<0, 0, 0, 0, 0>>, <<12440, 3393, 31325, 186, -55>>, <<12440, 3393, 31325, 186, -54>>, <<1138, 27121, 7109, 140, -53>>, <<12440, 3393, 31325, 186, -53>>, <<23743, 12433, 22772, 233, -53>>, <<1138, 27121, 7109, 140, -52>>>>,
     <<<<0, 0, 0, 0, 0>>, <<21607, 29284, 30009, 183, -55>>, <<21607, 29284, 30009, 183, -54>>, <<16205, 13771, 30699, 137, -53>>, <<21607, 29284, 30009, 183, -53>>, <<27009, 12029, 29320, 229, -53>>, <<16205, 13771, 30699, 137, -52>>>>,
     <<<<0, 0, 0, 0, 0>>, <<15308, 19710, 633, 181, -55>>, <<15308, 19710, 633, 181, -54>>, <<27865, 6590, 25051, 135, -53>>, <<15308, 19710, 633, 181, -53>>, <<2751, 62, 8984, 226, -53>>, <<27865, 6590, 25051, 135, -52>>>>,
     <<<<0, 0, 0, 0, 0>>, <<9170, 28491, 8372, 178, -55>>, <<9170, 28491, 8372, 178, -54>>, <<15069, 21368, 22663, 133, -53>>, <<9170, 28491, 8372, 178, -53>>, <<3270, 2846, 26850, 222, -53>>, <<15069, 21368, 22663, 133, -52>>>>,
     <<<<0, 0, 0, 0, 0>>, <<10512, 20095, 20137, 175, -55>>, <<10512, 20095, 20137, 175, -54>>, <<16076, 6879, 23295, 131, -53>>, <<10512, 20095, 20137, 175, -53>>, <<4948, 543, 16980, 219, -53>>, <<16076, 6879, 23295, 131, -52>>>>,
     <<<<0, 0, 0, 0, 0>>, <<22042, 6355, 2870, 173, -55>>, <<22042, 6355, 2870, 173, -54>>, <<24724, 21150, 26728, 129, -53>>, <<22042, 6355, 2870, 173, -53>>, <<19361, 24328, 11779, 216, -53>>, <<24724, 21150, 26728, 129, -52>>>>,
     <<<<0, 0, 0, 0, 0>>, <<21845, 10922, 21845, 170, -55>>, <<21845, 10922, 21845, 170, -54>>, <<0, 0, 0, 128, -53>>, <<21845, 10922, 21845, 170, -53>>, <<10923, 21845, 10922, 213, -53>>, <<0, 0, 0, 128, -52>>>>,
     <<<<0, 0, 0, 0, 0>>, <<27504, 20984, 11290, 168, -55>>, <<27504, 20984, 11290, 168, -54>>, <<8488, 31477, 16935, 252, -54>>, <<27504, 20984, 11290, 168, -53>>, <<1612, 9847, 14113, 210, -53>>, <<8488, 31477, 16935, 252, -53>>>>,
     <<<<0, 0, 0, 0, 0>>, <<20340, 21111, 3759, 166, -55>>, <<20340, 21111, 3759, 166, -54>>, <<14126, 15283, 5639, 249, -54>>, <<20340, 21111, 3759, 166, -53>>, <<17233, 18197, 21083, 207, -53>>, <<14126, 15283, 5639, 249, -53>>>>,
     <<<<0, 0, 0, 0, 0>>, <<32671, 8130, 31825, 163, -55>>, <<32671, 8130, 31825, 163, -54>>, <<16238, 28580, 31353, 245, -54>>, <<32671, 8130, 31825, 163, -53>>, <<24455, 18355, 31589, 204, -53>>, <<16238, 28580, 31353, 245, -53>>>>,
     <<<<0, 0, 0, 0, 0>>, <<18703, 17552, 29773, 161, -55>>, <<18703, 17552, 29773, 161, -54>>, <<28054, 9944, 28276, 242, -54>>, <<18703, 17552, 29773, 161, -53>>, <<23378, 30132, 12640, 202, -53>>, <<28054, 9944, 28276, 242, -53>>>>>>

\* numerator / denominator, the float _cosine_similarity returns.
CosineValue(c) == AsFloat(CosineQuotient[c.qq * c.dd][c.num + 1])

\* a < b for the cosines of two documents.
CosineLess(a, b) == FloatLess(CosineValue(a), CosineValue(b))

\* sorted(items, key = cosine, reverse = True): stable, descending.
SortByCosine(seq, acc) ==
  LET all == acc \o seq
      Before(j, i) == CosineLess(all[i].cos, all[j].cos)
                      \/ (~CosineLess(all[j].cos, all[i].cos) /\ j < i)
      place == [i \in 1..Len(all) |-> 1 + Cardinality({j \in 1..Len(all) : Before(j, i)})]
  IN Then(place, [k \in 1..Len(all) |-> all[CHOOSE i \in 1..Len(all) : place[i] = k]])

\* Variant of ResultUrls without the condition of the comprehension.
UnfilteredUrls(docs, u2i) ==
  [i \in 1..Len(docs) |-> get_url_by_id(u2i, docs[i].doc)]

\* The URLs of the documents that have one, in order.
ResultUrls(docs, u2i) ==
  LET HasUrl(d) == get_url_by_id(u2i, d.doc) # ""
      kept == SelectSeq(docs, HasUrl)
  IN [i \in 1..Len(kept) |-> get_url_by_id(u2i, kept[i].doc)]

\* Variant of CoversQuery that accepts a document holding any query token.
CoversAny(entries, query_tokens) == DOMAIN entries \cap query_tokens # {}

\* entries.keys() == query_tokens
CoversQuery(entries, query_tokens) == DOMAIN entries = query_tokens

Orderings(S) ==
  {o \in [1..Cardinality(S) -> S] : \A x \in S : \E i \in 1..Cardinality(S) : o[i] = x}

\* filtered_docs: the documents whose score entries cover the query
\* tokens, each with the sum of its scores, in insertion order; order is the
\* order in which the tokens were scored.
filtered_docs(ds, query_tokens, order) ==
  LET Covers(d) == CoversQuery(d.scores, query_tokens)
      Total(d) == [doc |-> d.doc, score |-> SumScores(Zero, d.scores, order)]
      kept == SelectSeq(ds, Covers)
  IN [i \in 1..Len(kept) |-> Total(kept[i])]

\* cosign_scores: the cosine of every document of sorted_docs[:50].
cosign_scores(query, sorted_docs, vectors) ==
  LET Score(d) == [doc |-> d.doc, cos |-> Cosine(query, vectors.vec[d.doc])]
  IN [i \in 1..Len(sorted_docs) |-> Score(sorted_docs[i])]

\* f"Found {len(result_urls)} results in {...} seconds": the timing string,
\* represented by the count it reports.
search_time(urls) == <<Len(urls)>>

\* The returned pair (result_urls, search_time), in the order of the
\* re-sorted documents.
result_urls(ranked, u2i) ==
  [raised |-> "", urls |-> ResultUrls(ranked, u2i),
   docs |-> [i \in 1..Len(ranked) |-> ranked[i].doc],
   search_time |-> search_time(ResultUrls(ranked, u2i))]

\* An exception leaves search: nothing is returned.
Raised(exception) == [raised |-> exception, urls |-> <<>>, docs |-> <<>>, search_time |-> <<>>]

\* Variant of Resort that divides by the query norm before it looks at the
\* candidates.
ResortEager(cosines, u2i) ==
  IF cosines = <<>> THEN Raised("ZeroDivisionError")
  ELSE result_urls(SortByCosine(cosines, <<>>), u2i)

\* sorted(cosign_scores.items(), ...) and the list of the URLs.
Resort(cosines, u2i) == result_urls(SortByCosine(cosines, <<>>), u2i)

\* _cosine_similarity(query, str(document_id)) for one document: the
\* exception it raises, "" if it returns.  self._document_vectors[doc_id]
\* exists only under string keys, for the documents the searcher file
\* holds; numerator / denominator divides by zero when a vector has norm 0.
CosineError(query, doc, vectors) ==
  IF vectors.keys # "str" \/ doc \notin DOMAIN vectors.vec THEN "KeyError"
  ELSE IF Cosine(query, vectors.vec[doc]).qq * Cosine(query, vectors.vec[doc]).dd = 0
  THEN "ZeroDivisionError"
  ELSE ""

\* The loop over sorted_docs[:50] ends at the first document whose cosine
\* raises.
Rerank(query, sorted_docs, vectors, u2i) ==
  IF \E i \in 1..Len(sorted_docs) : CosineError(query, sorted_docs[i].doc, vectors) # ""
  THEN Raised(CosineError(query,
                sorted_docs[CHOOSE i \in 1..Len(sorted_docs) :
                              /\ CosineError(query, sorted_docs[i].doc, vectors) # ""
                              /\ \A j \in 1..(i - 1) :
                                   CosineError(query, sorted_docs[j].doc, vectors) = ""].doc,
                vectors))
  ELSE Resort(cosign_scores(query, sorted_docs, vectors), u2i)

Rank(scored, query, order, vectors, u2i) ==
  IF scored.raised # "" THEN Raised(scored.raised)
  ELSE Rerank(query,
              Prefix(SortByScore(filtered_docs(scored.ds, _process_query(query), order),
                                 <<>>), TopK),
              vectors, u2i)

\* search(query) with query_tokens iterated in `order`.
Search(query, order, ranges, disks, fs, n_pages, vectors, u2i) ==
  Rank(ScoreTokens([ds |-> <<>>, raised |-> ""], order, ranges, disks, fs, n_pages),
       query, order, vectors, u2i)

SearchResult(query, r) ==
  [op |-> "search", query |-> query, raised |-> r.raised, urls |-> r.urls, docs |-> r.docs,
   search_time |-> r.search_time]

Queries == {<<>>, <<"ant">>, <<"bee", "ant">>, <<"cat">>, <<"cats">>, <<"zoo">>}

search ==
  /\ pc = "queryable"
  /\ \E query \in Queries :
       \E order \in Orderings(_process_query(query)) :
         result' = SearchResult(query, Search(query, order, token_ranges, partitions, files,
                                              page_count, document_vectors, url_to_id))
  /\ UNCHANGED <<first_build, args, appdata, out_dir, index2, index0, open_streams, corpus, postings_flush_count, partition_posting_size, path_to_id, url_to_id,
                 buf, postings_count, partition_count, page_count, partitions, simhashes,
                 token_ranges, files, next_page, pc, error, document_vectors>>

Next ==
  \/ BuildPage
  \/ FinalFlush
  \/ _merge
  \/ _partition
  \/ ComputeTokenRanges
  \/ __getitem__
  \/ SearcherInit
  \/ search

Spec == Init /\ [][Next]_vars

\* ------------------------------------------------- a corpus beyond top 50
MaxTopDocs == 52

_DEFAULT_POSTINGS_FLUSH_COUNT == 50000
_DEFAULT_PARTITION_SIZE == 5000

\* Pages that all answer the query "ant": two heading hits and two bold
\* hits, both followed by another word, a plain page of the single word, and
\* a page without the word.
TopPage(kind) ==
  CASE kind = "heading" -> <<Seg("h1", "ant"), Seg("h1", "ant"), Seg("other", "bee")>>
    [] kind = "bold" -> <<Seg("b", "ant"), Seg("b", "ant"), Seg("other", "bee")>>
    [] kind = "plain" -> <<Seg("other", "ant")>>
    [] kind = "none" -> <<Seg("other", "bee")>>

\* n pages: the plain page at position plain_at, a page without the word at
\* position 3, bold hits at the other odd positions, heading hits at the
\* other even positions.
TopCorpus(n, plain_at) ==
  [i \in 1..n |->
     [url |-> "t" \o ToString(i),
      content |-> TopPage(IF i = plain_at THEN "plain"
                          ELSE IF i = 3 THEN "none"
                          ELSE IF i % 2 = 1 THEN "bold" ELSE "heading")]]

TopCorpora ==
  {TopCorpus(n, 1) : n \in (MaxTopDocs - 1)..MaxTopDocs}
  \cup {TopCorpus(n, n) : n \in (MaxTopDocs - 1)..MaxTopDocs}

InitTop ==
  /\ corpus \in TopCorpora
  /\ postings_flush_count = _DEFAULT_POSTINGS_FLUSH_COUNT
  /\ partition_posting_size = _DEFAULT_PARTITION_SIZE
  /\ path_to_id = ConstructPathToId(corpus)
  /\ url_to_id = ConstructUrlToId(corpus, 1, <<>>)
  /\ buf = <<>>
  /\ postings_count = 0
  /\ partition_count = 0
  /\ page_count = 0
  /\ partitions = <<>>
  /\ simhashes = {}
  /\ token_ranges = <<>>
  /\ files = <<>>
  /\ next_page = 1
  /\ pc = "build"
  /\ error = ""
  /\ document_vectors = [keys |-> "int", vec |-> <<>>]
  /\ result = NoResult
  /\ index2 = NoIndex2
  /\ open_streams = {}
  /\ index0 = NoIndex0
  /\ args \in BuildingArgs
  /\ appdata \in BuiltAppData(corpus)
  /\ out_dir = BuildingOutDir
  /\ first_build = NoBuild

SpecTop == InitTop /\ [][Next]_vars


\* ================================================ InvertedIndex2 (ingest)
_DEF_FLUSH_POSTINGS_THRESHOLD == 1000000
MaxIndex2Postings == 2

\* psutil.virtual_memory().percent: the percentage of memory in use, so the
\* available fraction of memory is (100 - percent) / 100.
MemoryReadings == {20, 50, 80, 100}

\* Constructor argument min_avail_memory_perc, held in hundredths (0.5 is 50).
MinAvailPercents == {0, 50, 100}

\* _memory_low() for one reading of vmem.percent.
_memory_low(percent, min_avail_memory_perc) == percent < min_avail_memory_perc

\* compute_word_frequencies(tokenize_JSON_file(path)).items(), in dict order.
TokenFreqs(content) ==
  LET tokens == TextTokens(content)
      keys == Dedup(tokens, {})
  IN [i \in 1..Len(keys) |-> [token |-> keys[i], freq |-> CountIn(tokens, keys[i])]]

\* Posting(doc_id = 0, frequency = freq) of InvertedIndex2.
Posting2(freq) == [doc_id |-> 0, frequency |-> freq]

\* self._in_memory[token].append(posting) on a defaultdict(list), the dict
\* held as its items in insertion order.
AppendInMemory(in_memory, token, posting) ==
  IF \E i \in 1..Len(in_memory) : in_memory[i].token = token
  THEN [i \in 1..Len(in_memory) |->
          IF in_memory[i].token = token
          THEN [in_memory[i] EXCEPT !.postings = Append(@, posting)]
          ELSE in_memory[i]]
  ELSE Append(in_memory, [token |-> token, postings |-> <<posting>>])

\* Variant of _flush that copies the lines of temp.json and writes one new
\* line for every in-memory token.
_flush_unmerged(self) ==
  [self EXCEPT !.temp_file = @ \o self._in_memory,
               !._in_memory = <<>>,
               !._curr_in_memory_postings = 0,
               !.flush_calls = @ + 1]

\* _flush(): temp.json merged with the in-memory postings line by line, then
\* the tokens temp.json did not have; the in-memory index is wiped.
_flush(self) ==
  LET in_memory == self._in_memory
      Held(token) == \E i \in 1..Len(in_memory) : in_memory[i].token = token
      Of(token) == in_memory[CHOOSE i \in 1..Len(in_memory) : in_memory[i].token = token].postings
      on_disk == {self.temp_file[i].token : i \in 1..Len(self.temp_file)}
      merged == [i \in 1..Len(self.temp_file) |->
                   IF Held(self.temp_file[i].token)
                   THEN [self.temp_file[i] EXCEPT !.postings = @ \o Of(self.temp_file[i].token)]
                   ELSE self.temp_file[i]]
      rest == SelectSeq(in_memory, LAMBDA e : e.token \notin on_disk)
  IN [self EXCEPT !.temp_file = merged \o rest,
                  !._in_memory = <<>>,
                  !._curr_in_memory_postings = 0,
                  !.flush_calls = @ + 1]

\* The loop of _add over the tokens of one document; readings[i] is what
\* psutil reports while the i-th posting is added.  add_log records, for each
\* posting, the counter after the increment, the reading and whether _flush
\* was called.
RECURSIVE AddPostings(_, _, _)
AddPostings(self, token_freqs, readings) ==
  IF token_freqs = <<>> THEN self
  ELSE LET appended == [self EXCEPT
                          !._in_memory = AppendInMemory(@, Head(token_freqs).token,
                                                        Posting2(Head(token_freqs).freq)),
                          !._curr_in_memory_postings = @ + 1]
           flushing == \/ appended._curr_in_memory_postings >= self.max_in_memory_postings
                       \/ _memory_low(Head(readings), self.min_avail_memory_perc)
           entry == [postings |-> appended._curr_in_memory_postings,
                     percent |-> Head(readings),
                     flushed |-> flushing]
           after == IF flushing THEN _flush(appended) ELSE appended
       IN AddPostings([after EXCEPT !.add_log = Append(@, entry)],
                      Tail(token_freqs), Tail(readings))

\* One iteration of _feedr's loop: _add(file).
_add ==
  /\ pc = "feed"
  /\ next_page <= Len(corpus)
  /\ LET token_freqs == TokenFreqs(corpus[next_page].content)
     IN \E readings \in [1..Len(token_freqs) -> MemoryReadings] :
          index2' = AddPostings([index2 EXCEPT !.add_log = <<>>], token_freqs, readings)
  /\ next_page' = next_page + 1
  /\ UNCHANGED <<first_build, args, appdata, out_dir, index0, open_streams, corpus, postings_flush_count, partition_posting_size, path_to_id, url_to_id,
                 buf, postings_count, partition_count, page_count, partitions, simhashes,
                 token_ranges, files, pc, error, document_vectors, result>>

\* self._flush() of __init__, after _feedr returned.
Index2FinalFlush ==
  /\ pc = "feed"
  /\ next_page > Len(corpus)
  /\ index2' = [_flush(index2) EXCEPT !.add_log = <<>>]
  /\ pc' = "fed"
  /\ UNCHANGED <<first_build, args, appdata, out_dir, index0, open_streams, corpus, postings_flush_count, partition_posting_size, path_to_id, url_to_id,
                 buf, postings_count, partition_count, page_count, partitions, simhashes,
                 token_ranges, files, next_page, error, document_vectors, result>>

\* InvertedIndex2.__init__ up to the call of _feedr.
InitIndex2 ==
  /\ open_streams = {}
  /\ index0 = NoIndex0
  /\ corpus \in DocSeqs(MaxDocs)
  /\ index2 \in [max_in_memory_postings : 1..MaxIndex2Postings \cup {_DEF_FLUSH_POSTINGS_THRESHOLD},
                 min_avail_memory_perc : MinAvailPercents,
                 _in_memory : {<<>>},
                 _curr_in_memory_postings : {0},
                 temp_file : {<<>>},
                 flush_calls : {0},
                 add_log : {<<>>}]
  /\ postings_flush_count = _DEFAULT_POSTINGS_FLUSH_COUNT
  /\ partition_posting_size = _DEFAULT_PARTITION_SIZE
  /\ path_to_id = ConstructPathToId(corpus)
  /\ url_to_id = ConstructUrlToId(corpus, 1, <<>>)
  /\ buf = <<>>
  /\ postings_count = 0
  /\ partition_count = 0
  /\ page_count = 0
  /\ partitions = <<>>
  /\ simhashes = {}
  /\ token_ranges = <<>>
  /\ files = <<>>
  /\ next_page = 1
  /\ pc = "feed"
  /\ error = ""
  /\ document_vectors = [keys |-> "int", vec |-> <<>>]
  /\ result = NoResult
  /\ args = DefaultArgs
  /\ appdata = NoAppData
  /\ out_dir = BuildingOutDir
  /\ first_build = NoBuild

NextIndex2 ==
  \/ _add
  \/ Index2FinalFlush

SpecIndex2 == InitIndex2 /\ [][NextIndex2]_vars


\* ===================================================== PathMapper (build)
MaxFiles == 3

\* What a .json file can hold: an object with a url, an object without one,
\* text that is not JSON, bytes that are not UTF-8, and JSON that is not an
\* object.
JsonFile(kind, url) == [json |-> kind, url |-> url]

JsonFileCatalogue ==
  { JsonFile("object", "u1"), JsonFile("object", "u2"), JsonFile("object", ""),
    JsonFile("malformed", ""), JsonFile("undecodable", ""), JsonFile("array", "") }

RECURSIVE JsonFileSeqs(_)
JsonFileSeqs(n) ==
  IF n = 0 THEN {<<>>}
  ELSE LET shorter == JsonFileSeqs(n - 1)
       IN shorter \cup {Append(s, f) : s \in {x \in shorter : Len(x) = n - 1},
                                       f \in JsonFileCatalogue}

\* The exception the try block of construct_mapping lets through for a file:
\* only json.JSONDecodeError is caught.
MappingError(file) ==
  CASE file.json = "undecodable" -> "UnicodeDecodeError"   \* f.read() inside json.load
    [] file.json = "array" -> "AttributeError"             \* data.get on a list
    [] OTHER -> ""

\* One iteration of construct_mapping's loop, for the file at next_page
\* (file_id and the position advance together: corpus holds .json files only).
MapFile ==
  /\ pc = "map"
  /\ next_page <= Len(corpus)
  /\ path_to_id' = path_to_id @@ (next_page :> next_page)
  /\ IF MappingError(corpus[next_page]) # ""
     THEN /\ error' = MappingError(corpus[next_page])
          /\ pc' = "failed"
          /\ UNCHANGED <<url_to_id, next_page>>
     ELSE /\ url_to_id' = IF corpus[next_page].json = "object"
                          THEN MapUrl(corpus, next_page, url_to_id)
                          ELSE url_to_id
          /\ next_page' = next_page + 1
          /\ UNCHANGED <<pc, error>>
  /\ UNCHANGED <<first_build, args, appdata, out_dir, index2, index0, open_streams, corpus, postings_flush_count, partition_posting_size,
                 buf, postings_count, partition_count, page_count, partitions, simhashes,
                 token_ranges, files, document_vectors, result>>

\* construct_mapping returned; __init__ saves the mapper.
_save ==
  /\ pc = "map"
  /\ next_page > Len(corpus)
  /\ pc' = "mapped"
  /\ appdata' = [appdata EXCEPT !.mapper = MapperFile(path_to_id, url_to_id)]
  /\ UNCHANGED <<first_build, args, out_dir, index2, index0, open_streams, corpus, postings_flush_count, partition_posting_size, path_to_id,
                 url_to_id, buf, postings_count, partition_count, page_count, partitions,
                 simhashes, token_ranges, files, next_page, error, document_vectors, result>>

\* get_id(path), get_id_by_url(url) and get_url_by_id(doc_id) on the mapper.
MapperLookup ==
  /\ pc = "mapped"
  /\ \E path \in 1..(Len(corpus) + 1), url \in {"u1", "u2", "u9"}, doc_id \in -1..(Len(corpus) + 1) :
       result' = [op |-> "lookup", path |-> path, url |-> url, doc_id |-> doc_id,
                  get_id |-> get_id(path_to_id, path),
                  get_id_by_url |-> get_id_by_url(url_to_id, url),
                  get_url_by_id |-> get_url_by_id(url_to_id, doc_id),
                  round_trip |-> get_url_by_id(url_to_id, get_id_by_url(url_to_id, url))]
  /\ UNCHANGED <<first_build, args, appdata, out_dir, index2, index0, open_streams, corpus, postings_flush_count, partition_posting_size, path_to_id,
                 url_to_id, buf, postings_count, partition_count, page_count, partitions,
                 simhashes, token_ranges, files, next_page, pc, error, document_vectors>>

\* PathMapper.__init__ up to the call of construct_mapping.
InitMapper ==
  /\ corpus \in JsonFileSeqs(MaxFiles)
  /\ path_to_id = <<>>
  /\ url_to_id = <<>>
  /\ postings_flush_count = _DEFAULT_POSTINGS_FLUSH_COUNT
  /\ partition_posting_size = _DEFAULT_PARTITION_SIZE
  /\ buf = <<>>
  /\ postings_count = 0
  /\ partition_count = 0
  /\ page_count = 0
  /\ partitions = <<>>
  /\ simhashes = {}
  /\ token_ranges = <<>>
  /\ files = <<>>
  /\ next_page = 1
  /\ pc = "map"
  /\ error = ""
  /\ document_vectors = [keys |-> "int", vec |-> <<>>]
  /\ result = NoResult
  /\ index2 = NoIndex2
  /\ open_streams = {}
  /\ index0 = NoIndex0
  /\ args = DefaultArgs
  /\ appdata = NoAppData
  /\ out_dir = BuildingOutDir
  /\ first_build = NoBuild

NextMapper ==
  \/ MapFile
  \/ _save
  \/ MapperLookup

SpecMapper == InitMapper /\ [][NextMapper]_vars


\* ============================================ InvertedIndex (life cycle)
\* The root directory an index is constructed over, as it is at first and as
\* it is once a file that is not UTF-8 text has been added to it.
LifePages ==
  <<[url |-> "u2", content |-> <<Seg("other", "bee"), Seg("other", "ant")>>],
    [url |-> "u3", content |-> <<Seg("other", "cats"), Seg("b", "bee"), Seg("other", "cat")>>]>>

LifeCorpora ==
  {LifePages, Append(LifePages, [url |-> "", content |-> <<>>, json |-> "undecodable"])}

\* PathMapper.__init__ keeps what _load() read: rebuild is not set and the
\* mapper file of the root exists (`rebuild or not self._load()` is false).
LoadsMapper(load_existing, saved) == load_existing /\ saved.exists

\* The exception PathMapper(root_dir, rebuild = not load_existing) raises
\* out of __init__, "" if none: construct_mapping runs unless the saved
\* mapping was loaded.
MapperError(docs, load_existing, saved) ==
  IF LoadsMapper(load_existing, saved) THEN ""
  ELSE IF \E i \in 1..Len(docs) : "json" \in DOMAIN docs[i] /\ MappingError(docs[i]) # ""
  THEN MappingError(docs[CHOOSE i \in 1..Len(docs) :
                           "json" \in DOMAIN docs[i] /\ MappingError(docs[i]) # ""])
  ELSE ""

\* path_to_id and url_to_id of the PathMapper, and the mapper file, once
\* PathMapper.__init__ has returned.
MapperOf(docs, load_existing, saved) ==
  IF LoadsMapper(load_existing, saved) THEN saved
  ELSE MapperFile(ConstructPathToId(docs), ConstructUrlToId(docs, 1, <<>>))

\* Variant of BuildsAnew that rebuilds whatever is on disk.
BuildsAlways(load_existing, exists) == TRUE

\* The condition of __init__ under which the index is built from scratch.
BuildsAnew(load_existing, exists) == ~load_existing \/ ~exists

\* Variant of FreshDirectory that builds into whatever the directory holds.
StaleDirectory(fs) == fs

\* First statements of build(): rmtree of an existing index directory, then
\* mkdir of an empty one.
FreshDirectory(fs) == <<>>

\* The orders in which glob('*.bin') can list the files of the directory.
GlobOrders(dir) ==
  {order \in [1..Cardinality(DOMAIN dir) -> DOMAIN dir] :
     \A i, j \in 1..Cardinality(DOMAIN dir) : order[i] = order[j] => i = j}

\* __init__(root_dir, name, persist, load_existing), for a name that stays
\* the same, up to the loop of build() or to the end of load().
__init__ ==
  /\ pc = "none"
  /\ \E root_dir \in LifeCorpora, new_args \in [persist : BOOLEAN, load_existing : BOOLEAN] :
       /\ corpus' = root_dir
       /\ args' = new_args
       /\ IF MapperError(root_dir, new_args.load_existing, appdata.mapper) # ""
          THEN /\ error' = MapperError(root_dir, new_args.load_existing, appdata.mapper)
               /\ pc' = "failed"
               /\ path_to_id' = <<>>
               /\ url_to_id' = <<>>
               /\ out_dir' = [out_dir EXCEPT !.assigned = FALSE]
               /\ UNCHANGED <<partitions, files, appdata>>
          ELSE /\ error' = ""
               /\ path_to_id' = MapperOf(root_dir, new_args.load_existing, appdata.mapper).path_to_id
               /\ url_to_id' = MapperOf(root_dir, new_args.load_existing, appdata.mapper).url_to_id
               /\ appdata' = [appdata EXCEPT
                                !.mapper = MapperOf(root_dir, new_args.load_existing, @)]
               /\ IF BuildsAnew(new_args.load_existing, out_dir.exists)
                  THEN /\ files' = FreshDirectory(files)
                       /\ out_dir' = [out_dir EXCEPT !.assigned = TRUE, !.exists = TRUE]
                       /\ partitions' = <<>>
                       /\ pc' = "build"
                  ELSE /\ \E order \in GlobOrders(files) : partitions' = order
                       /\ out_dir' = [out_dir EXCEPT !.assigned = TRUE]
                       /\ pc' = "ranges"
                       /\ UNCHANGED files
  /\ buf' = <<>>
  /\ postings_count' = 0
  /\ partition_count' = 0
  /\ page_count' = 0
  /\ simhashes' = {}
  /\ token_ranges' = <<>>
  /\ next_page' = 1
  /\ document_vectors' = [keys |-> "int", vec |-> <<>>]
  /\ result' = NoResult
  /\ UNCHANGED <<first_build, index2, index0, open_streams, postings_flush_count,
                 partition_posting_size>>

\* __del__, when the object is collected after __init__ returned or raised.
\* Reading self._out_dir before it was assigned raises AttributeError, which
\* the interpreter reports and drops.
__del__ ==
  /\ pc \in {"ready", "queryable", "failed"}
  /\ pc' = "none"
  /\ IF ~args.persist /\ out_dir.assigned /\ out_dir.exists
     THEN /\ files' = <<>>
          /\ out_dir' = [out_dir EXCEPT !.exists = FALSE]
     ELSE UNCHANGED <<files, out_dir>>
  /\ UNCHANGED <<first_build, args, appdata, index2, index0, open_streams, corpus, postings_flush_count, partition_posting_size,
                 path_to_id, url_to_id, buf, postings_count, partition_count, page_count,
                 partitions, simhashes, token_ranges, next_page, error, document_vectors,
                 result>>

\* partition_posting_size of the constructions: small enough for the index of
\* the root directory to have several partitions.
LifePartitionSize == 2

\* No object yet and nothing on disk.
InitLife ==
  /\ corpus = <<>>
  /\ postings_flush_count = _DEFAULT_POSTINGS_FLUSH_COUNT
  /\ partition_posting_size = LifePartitionSize
  /\ path_to_id = <<>>
  /\ url_to_id = <<>>
  /\ buf = <<>>
  /\ postings_count = 0
  /\ partition_count = 0
  /\ page_count = 0
  /\ partitions = <<>>
  /\ simhashes = {}
  /\ token_ranges = <<>>
  /\ files = <<>>
  /\ next_page = 1
  /\ pc = "none"
  /\ error = ""
  /\ document_vectors = [keys |-> "int", vec |-> <<>>]
  /\ result = NoResult
  /\ index2 = NoIndex2
  /\ open_streams = {}
  /\ index0 = NoIndex0
  /\ args = DefaultArgs
  /\ appdata \in {[mapper |-> NoFile, searcher |-> file] :
                   file \in {NoFile, SearcherFile(SavedDocumentVectors(LifePages))}}
  /\ out_dir = [assigned |-> FALSE, exists |-> FALSE, name |-> IdxName]
  /\ first_build = NoBuild

NextLife ==
  \/ __init__
  \/ Next
  \/ __del__

SpecLife == InitLife /\ [][NextLife]_vars


\* ============================================== pages with template text
\* Pages whose weighted tags lie partly inside <template>.
TagPages ==
  { [url |-> "u6", content |-> <<TemplateSeg("b", "ant")>>],
    [url |-> "u7", content |-> <<TemplateSeg("b", "ant"), Seg("other", "ant")>>],
    [url |-> "u8", content |-> <<TemplateSeg("b", "ant"), TemplateSeg("b", "ant"),
                                 Seg("other", "ant")>>],
    [url |-> "u9", content |-> <<Seg("h1", "bee"), Seg("other", "bee"), Seg("other", "cat")>>] }

TagCorpora ==
  {<<p>> : p \in TagPages} \cup {<<p, q>> : p \in TagPages, q \in TagPages}

InitTags ==
  /\ corpus \in TagCorpora
  /\ postings_flush_count = _DEFAULT_POSTINGS_FLUSH_COUNT
  /\ partition_posting_size = _DEFAULT_PARTITION_SIZE
  /\ path_to_id = ConstructPathToId(corpus)
  /\ url_to_id = ConstructUrlToId(corpus, 1, <<>>)
  /\ buf = <<>>
  /\ postings_count = 0
  /\ partition_count = 0
  /\ page_count = 0
  /\ partitions = <<>>
  /\ simhashes = {}
  /\ token_ranges = <<>>
  /\ files = <<>>
  /\ next_page = 1
  /\ pc = "build"
  /\ error = ""
  /\ document_vectors = [keys |-> "int", vec |-> <<>>]
  /\ result = NoResult
  /\ index2 = NoIndex2
  /\ open_streams = {}
  /\ index0 = NoIndex0
  /\ args \in BuildingArgs
  /\ appdata \in BuiltAppData(corpus)
  /\ out_dir = BuildingOutDir
  /\ first_build = NoBuild

SpecTags == InitTags /\ [][Next]_vars


\* ================================================== tokenize (characters)
MaxTextLen == 3

\* Code points a text is made of here: "A", "a", "b", space, "-" and the
\* Arabic-Indic digit three.
TextChars == {65, 97, 98, 32, 45, 1635}

\* [a-zA-Z\d] on a str: \d matches every Unicode decimal digit.
IsWordChar(c) == c \in (48..57) \cup (65..90) \cup (97..122) \cup (1632..1641)

\* str.lower() of one code point.
Lower(c) == IF c \in 65..90 THEN c + 32 ELSE c

\* re.sub(r'[^a-zA-Z\d]', " ", string).split(), each word lowered: word is
\* the word being read, out the words completed so far.
RECURSIVE SplitWords(_, _, _)
SplitWords(string, word, out) ==
  IF string = <<>> THEN (IF word = <<>> THEN out ELSE Append(out, word))
  ELSE IF IsWordChar(Head(string))
  THEN SplitWords(Tail(string), Append(word, Lower(Head(string))), out)
  ELSE SplitWords(Tail(string), <<>>, IF word = <<>> THEN out ELSE Append(out, word))

\* tokenize(string) of index/JSONtokenizer.py: no word is dropped.
tokenize(string) == SplitWords(string, <<>>, <<>>)

RECURSIVE Texts(_)
Texts(n) ==
  IF n = 0 THEN {<<>>}
  ELSE LET shorter == Texts(n - 1)
       IN shorter \cup {Append(t, c) : t \in {x \in shorter : Len(x) = n - 1}, c \in TextChars}

\* A call of tokenize on the text at hand.
Tokenize ==
  /\ pc = "text"
  /\ result' = [op |-> "tokenize", string |-> result.string, tokens |-> tokenize(result.string)]
  /\ pc' = "tokenized"
  /\ UNCHANGED <<first_build, args, appdata, out_dir, index2, index0, open_streams, corpus, postings_flush_count, partition_posting_size,
                 path_to_id, url_to_id, buf, postings_count, partition_count, page_count,
                 partitions, simhashes, token_ranges, files, next_page, error,
                 document_vectors>>

InitTokenize ==
  /\ result \in [op : {"text"}, string : Texts(MaxTextLen)]
  /\ pc = "text"
  /\ corpus = <<>>
  /\ postings_flush_count = _DEFAULT_POSTINGS_FLUSH_COUNT
  /\ partition_posting_size = _DEFAULT_PARTITION_SIZE
  /\ path_to_id = <<>>
  /\ url_to_id = <<>>
  /\ buf = <<>>
  /\ postings_count = 0
  /\ partition_count = 0
  /\ page_count = 0
  /\ partitions = <<>>
  /\ simhashes = {}
  /\ token_ranges = <<>>
  /\ files = <<>>
  /\ next_page = 1
  /\ error = ""
  /\ document_vectors = [keys |-> "int", vec |-> <<>>]
  /\ index2 = NoIndex2
  /\ open_streams = {}
  /\ index0 = NoIndex0
  /\ args = DefaultArgs
  /\ appdata = NoAppData
  /\ out_dir = BuildingOutDir
  /\ first_build = NoBuild

NextTokenize == Tokenize

SpecTokenize == InitTokenize /\ [][NextTokenize]_vars


\* ====================================================== simhash (compare)
\* The HTML texts fingerprints are taken of; one of them holds no token.
SimhashTexts == {page.content : page \in PageCatalogue \cup TagPages}

\* calculate_similarity_score(hash1, hash2): distance raises ValueError when
\* the lengths differ, the division raises when the hashes are empty; the
\* score is 1 - hamming / bits otherwise.
calculate_similarity_score(hash1, hash2) ==
  IF Len(hash1) # Len(hash2) THEN [raised |-> "ValueError"]
  ELSE IF Len(hash1) = 0 THEN [raised |-> "ZeroDivisionError"]
  ELSE [raised |-> "", hamming |-> distance(hash1, hash2), bits |-> Len(hash1)]

\* simhash of both texts, then calculate_similarity_score of the two hashes.
CompareTexts ==
  /\ pc = "texts"
  /\ result' = [op |-> "similarity",
                hash1 |-> simhash(result.first),
                hash2 |-> simhash(result.second),
                score |-> calculate_similarity_score(simhash(result.first),
                                                     simhash(result.second))]
  /\ pc' = "compared"
  /\ UNCHANGED <<first_build, args, appdata, out_dir, index2, index0, open_streams, corpus, postings_flush_count, partition_posting_size,
                 path_to_id, url_to_id, buf, postings_count, partition_count, page_count,
                 partitions, simhashes, token_ranges, files, next_page, error,
                 document_vectors>>

InitSimhash ==
  /\ result \in [op : {"texts"}, first : SimhashTexts, second : SimhashTexts]
  /\ pc = "texts"
  /\ corpus = <<>>
  /\ postings_flush_count = _DEFAULT_POSTINGS_FLUSH_COUNT
  /\ partition_posting_size = _DEFAULT_PARTITION_SIZE
  /\ path_to_id = <<>>
  /\ url_to_id = <<>>
  /\ buf = <<>>
  /\ postings_count = 0
  /\ partition_count = 0
  /\ page_count = 0
  /\ partitions = <<>>
  /\ simhashes = {}
  /\ token_ranges = <<>>
  /\ files = <<>>
  /\ next_page = 1
  /\ error = ""
  /\ document_vectors = [keys |-> "int", vec |-> <<>>]
  /\ index2 = NoIndex2
  /\ open_streams = {}
  /\ index0 = NoIndex0
  /\ args = DefaultArgs
  /\ appdata = NoAppData
  /\ out_dir = BuildingOutDir
  /\ first_build = NoBuild

NextSimhash == CompareTexts

SpecSimhash == InitSimhash /\ [][NextSimhash]_vars


\* ======================================================== properties
Built == pc \in {"ready", "queryable"}

\* items(): the (token, entry) pairs read from one file, then from all
\* partition files in the order of the partition list.
RECURSIVE ReadAll(_, _)
ReadAll(content, pos) ==
  LET e == _next_entry(content, pos)
  IN IF e.stop THEN <<>>
     ELSE <<[token |-> e.token, token_entry |-> e.token_entry]>> \o ReadAll(content, e.pos)

\* One next() on the generator of items(), standing in file number `disk`
\* of the partition list at record `pos` (0: the file is not opened yet):
\* open() of a listed file that is not on disk raises FileNotFoundError, the
\* end of a file moves on to the next one, the end of the list ends the
\* generator.
RECURSIVE NextItem(_, _, _, _)
NextItem(fs, disks, disk, pos) ==
  IF disk > Len(disks) THEN [kind |-> "StopIteration", disk |-> disk, pos |-> pos]
  ELSE IF pos = 0 /\ disks[disk] \notin DOMAIN fs
  THEN [kind |-> "FileNotFoundError", disk |-> disk, pos |-> pos]
  ELSE LET e == _next_entry(FileContent(fs, disks[disk]), IF pos = 0 THEN 1 ELSE pos)
       IN IF e.stop THEN NextItem(fs, disks, disk + 1, 0)
          ELSE [kind |-> "yield", disk |-> disk, pos |-> e.pos,
                item |-> [token |-> e.token, token_entry |-> e.token_entry]]

\* list(index.items()): the pairs yielded until the generator ends or raises.
RECURSIVE Drain(_, _, _, _)
Drain(fs, disks, disk, pos) ==
  LET n == NextItem(fs, disks, disk, pos)
  IN IF n.kind # "yield" THEN [entries |-> <<>>, raised |-> n.kind]
     ELSE LET rest == Drain(fs, disks, n.disk, n.pos)
          IN [entries |-> <<n.item>> \o rest.entries, raised |-> rest.raised]

Items(fs, disks) == Drain(fs, disks, 1, 0).entries

StoredTokens == {Items(files, partitions)[i].token : i \in 1..Len(Items(files, partitions))}


\* ========================================================= building twice
PostingBag(postings) == [posting \in SeqRange(postings) |-> CountIn(postings, posting)]

\* What list(index.items()) reads from each partition file, the postings of
\* every entry taken without their order.
BuiltEntries(fs, disks) ==
  [path \in SeqRange(disks) |->
     LET entries == ReadAll(FileContent(fs, path), 1)
     IN [i \in 1..Len(entries) |->
           [token |-> entries[i].token,
            df |-> entries[i].token_entry.df,
            postings |-> PostingBag(entries[i].token_entry.postings)]]]

\* The index directory an earlier object of the same name left on disk: the
\* partition files of an index of another corpus.
LeftoverRecord(token) ==
  WrittenRecord(token, [df |-> 1,
                        postings |-> <<[doc_id |-> 1, frequency |-> 1,
                                        tag_frequencies |-> [k \in TagKeys |->
                                                               IF k = "other" THEN 1 ELSE 0]]>>])

LeftoverDirectory ==
  (PartitionPath("ant") :> <<LeftoverRecord("ant")>>)
  @@ (PartitionPath("zoo") :> <<LeftoverRecord("zoo")>>)

\* The mapper file of the root as it may be before the first construction:
\* none, or the mapping saved when the root held one more page, discovered
\* first and deleted since.
EarlierMapperFiles ==
  {NoFile,
   MapperFile([p \in 1..Len(LifePages) |-> p + 1],
              [url \in {LifePages[p].url : p \in 1..Len(LifePages)} |->
                 1 + CHOOSE p \in 1..Len(LifePages) : LifePages[p].url = url])}

\* The construction built its index (the loop of build() went over every
\* page) and has returned.
BuiltAnew == pc = "ready" /\ next_page > Len(corpus)

\* A caller copies the directory of an index the object built, once.
KeepBuild ==
  /\ BuiltAnew
  /\ first_build = NoBuild
  /\ first_build' = [op |-> "build", corpus |-> corpus, args |-> args,
                     mapper |-> appdata.mapper, files |-> files, partitions |-> partitions]
  /\ result' = [op |-> "listing"]
  /\ UNCHANGED <<args, appdata, out_dir, index2, index0, open_streams, corpus,
                 postings_flush_count, partition_posting_size, path_to_id, url_to_id, buf,
                 postings_count, partition_count, page_count, partitions, simhashes,
                 token_ranges, files, next_page, pc, error, document_vectors>>

\* No object yet; the index is named 'index_main' and has no directory, or
\* it is named 'idx' and an earlier index of that name left its directory;
\* there may be an earlier mapper file.
InitTwice ==
  /\ corpus = <<>>
  /\ postings_flush_count \in 1..MaxFlushCount
  /\ partition_posting_size \in 1..MaxPartitionSize
  /\ path_to_id = <<>>
  /\ url_to_id = <<>>
  /\ buf = <<>>
  /\ postings_count = 0
  /\ partition_count = 0
  /\ page_count = 0
  /\ partitions = <<>>
  /\ simhashes = {}
  /\ token_ranges = <<>>
  /\ \/ /\ files = <<>>
        /\ out_dir = [assigned |-> FALSE, exists |-> FALSE, name |-> IndexMainName]
     \/ /\ files = LeftoverDirectory
        /\ out_dir = [assigned |-> FALSE, exists |-> TRUE, name |-> IdxName]
  /\ next_page = 1
  /\ pc = "none"
  /\ error = ""
  /\ document_vectors = [keys |-> "int", vec |-> <<>>]
  /\ result = NoResult
  /\ index2 = NoIndex2
  /\ open_streams = {}
  /\ index0 = NoIndex0
  /\ args = DefaultArgs
  /\ appdata \in {[mapper |-> file, searcher |-> NoFile] : file \in EarlierMapperFiles}
  /\ first_build = NoBuild

\* Constructions of InvertedIndex(root_dir, name, ...) one after the other,
\* each object collected before the next is constructed.
NextTwice ==
  \/ __init__
  \/ BuildPage
  \/ FinalFlush
  \/ _merge
  \/ _partition
  \/ ComputeTokenRanges
  \/ KeepBuild
  \/ __del__

SpecTwice == InitTwice /\ [][NextTwice]_vars


\* ================================================= a saved PathMapper
\* Root directories in discovery order, as they are now.
StaleCorpora ==
  { <<[url |-> "u3", content |-> <<Seg("other", "cats"), Seg("b", "bee"), Seg("other", "cat")>>],
      [url |-> "u1", content |-> <<Seg("h1", "ant")>>],
      [url |-> "u2", content |-> <<Seg("other", "bee"), Seg("other", "ant")>>]>>,
    <<[url |-> "u1", content |-> <<Seg("h1", "ant")>>],
      [url |-> "u3", content |-> <<Seg("other", "cats"), Seg("b", "bee"), Seg("other", "cat")>>],
      [url |-> "u2", content |-> <<Seg("other", "bee"), Seg("other", "ant")>>]>>,
    <<[url |-> "u1", content |-> <<Seg("h1", "ant")>>],
      [url |-> "u2", content |-> <<Seg("other", "bee"), Seg("other", "ant")>>]>> }

\* The pages of docs at the positions in known, in discovery order.
PagesAt(docs, known) ==
  LET rank(p) == Cardinality({q \in known : q <= p})
  IN [i \in 1..Cardinality(known) |-> docs[CHOOSE p \in known : rank(p) = i]]

\* path_to_id as _load() reads it from the mapping an earlier PathMapper
\* saved, when the root directory held only the pages at `known`.
LoadedPathToId(known) == [p \in known |-> Cardinality({q \in known : q <= p})]

\* InvertedIndex(root_dir, load_existing = True) without an index directory
\* on disk, up to the loop of build(): PathMapper(rebuild = False) has loaded
\* the saved mapping and the index is built anew.
InitStale ==
  /\ corpus \in StaleCorpora
  /\ \E known \in SUBSET (1..Len(corpus)) :
       /\ path_to_id = LoadedPathToId(known)
       /\ url_to_id = ConstructUrlToId(PagesAt(corpus, known), 1, <<>>)
       /\ appdata = [mapper |-> MapperFile(LoadedPathToId(known),
                                           ConstructUrlToId(PagesAt(corpus, known), 1, <<>>)),
                     searcher |-> NoFile]
  /\ postings_flush_count \in 1..MaxFlushCount
  /\ partition_posting_size \in 1..MaxPartitionSize
  /\ buf = <<>>
  /\ postings_count = 0
  /\ partition_count = 0
  /\ page_count = 0
  /\ partitions = <<>>
  /\ simhashes = {}
  /\ token_ranges = <<>>
  /\ files = <<>>
  /\ next_page = 1
  /\ pc = "build"
  /\ error = ""
  /\ document_vectors = [keys |-> "int", vec |-> <<>>]
  /\ result = NoResult
  /\ index2 = NoIndex2
  /\ open_streams = {}
  /\ index0 = NoIndex0
  /\ args = [persist |-> FALSE, load_existing |-> TRUE]
  /\ out_dir = BuildingOutDir
  /\ first_build = NoBuild

\* The steps of the construction.
NextStale ==
  \/ BuildPage
  \/ FinalFlush
  \/ _merge
  \/ _partition
  \/ ComputeTokenRanges

SpecStale == InitStale /\ [][NextStale]_vars


\* ================================= InvertedIndex of src/inverted_index.py
MaxLegacyAdds == 2

\* _FLUSH_MEMORY_THRESHOLD * 100 when the module is imported.
_FLUSH_MEMORY_THRESHOLD == 50

\* Arguments of _set_memory_low_th, in hundredths (1 is 100).
LegacyThresholds == {100, 150}

\* soup.get_text(): the strings of the page joined without a separator, as
\* the runs of text pieces that no white space divides.  spaced tells
\* whether the HTML has white space between its elements; without it all
\* the strings form one run.
LegacyText(content, spaced) ==
  LET words == PlainWords(content)
  IN IF spaced THEN [i \in 1..Len(words) |-> <<words[i]>>]
     ELSE IF words = <<>> THEN <<>>
     ELSE <<words>>

\* The word a run of text pieces forms.
RECURSIVE Joined(_)
Joined(run) == IF run = <<>> THEN "" ELSE Head(run) \o Joined(Tail(run))

\* len(word) of the word a run forms.
RECURSIVE JoinedLen(_)
JoinedLen(run) ==
  IF run = <<>> THEN 0 ELSE Len(CodePoints[Head(run)]) + JoinedLen(Tail(run))

\* tokenize_JSON_file of src/JSONtokenizer.py: the words of get_text() of
\* more than one character, lemmatized.
LegacyTokens(content, spaced) ==
  LET Long(run) == JoinedLen(run) > 1
      runs == SelectSeq(LegacyText(content, spaced), Long)
  IN [i \in 1..Len(runs) |-> Lemmatize(Joined(runs[i]))]

\* compute_word_frequencies(tokenize_JSON_file(path)).items(), in dict order.
LegacyFreqs(content, spaced) ==
  LET tokens == LegacyTokens(content, spaced)
      keys == Dedup(tokens, {})
  IN [i \in 1..Len(keys) |-> [token |-> keys[i], freq |-> CountIn(tokens, keys[i])]]

\* A page of the catalogue written with or without white space between its
\* elements.
LegacyPage(url, spaced) ==
  LET page == CHOOSE p \in PageCatalogue : p.url = url
  IN [url |-> url, content |-> page.content, spaced |-> spaced]

\* The pages handed to add().
LegacyPages ==
  {LegacyPage("u2", TRUE), LegacyPage("u3", TRUE), LegacyPage("u3", FALSE),
   LegacyPage("u4", FALSE)}

\* The loop of add(): one Posting(doc_id = 0, frequency = freq) per token.
RECURSIVE LegacyAppend(_, _)
LegacyAppend(self, token_freqs) ==
  IF token_freqs = <<>> THEN self
  ELSE LET posting == Posting2(Head(token_freqs).freq)
       IN LegacyAppend(
            [self EXCEPT !._internal = AppendInMemory(@, Head(token_freqs).token, posting),
                         !.added = Append(@, [token |-> Head(token_freqs).token,
                                              posting |-> posting])],
            Tail(token_freqs))

\* flush(): disk.json is opened with "w" and receives the in-memory index,
\* which is then replaced by an empty one.
LegacyFlushed(self) ==
  [self EXCEPT !.disk_dir = "exists", !.disk = self._internal, !._internal = <<>>]

\* self._internal[token] on the defaultdict(list).
LegacyPostings(internal, token) ==
  IF \E i \in 1..Len(internal) : internal[i].token = token
  THEN internal[CHOOSE i \in 1..Len(internal) : internal[i].token = token].postings
  ELSE <<>>

\* index.add(json_path), with the memory reading its _memory_low() takes.
LegacyAdd ==
  /\ pc = "legacy"
  /\ next_page <= MaxLegacyAdds
  /\ \E page \in LegacyPages, percent \in MemoryReadings :
       LET added == LegacyAppend(index0, LegacyFreqs(page.content, page.spaced))
       IN index0' = IF _memory_low(percent, index0.memory_low_th)
                    THEN LegacyFlushed(added)
                    ELSE added
  /\ next_page' = next_page + 1
  /\ UNCHANGED <<first_build, args, appdata, out_dir, index2, open_streams, corpus, postings_flush_count, partition_posting_size,
                 path_to_id, url_to_id, buf, postings_count, partition_count, page_count,
                 partitions, simhashes, token_ranges, files, pc, error,
                 document_vectors, result>>

\* _set_memory_low_th(perc): the global threshold that _memory_low() reads
\* (kept in index0.memory_low_th) is assigned unless perc lies outside 0..1,
\* which raises ValueError; result keeps the exception.
_set_memory_low_th ==
  /\ pc = "legacy"
  /\ \E perc \in LegacyThresholds :
       IF perc > 100 \/ perc < 0
       THEN /\ result' = [op |-> "set_memory_low_th", perc |-> perc, raised |-> "ValueError"]
            /\ UNCHANGED index0
       ELSE /\ index0' = [index0 EXCEPT !.memory_low_th = perc]
            /\ UNCHANGED result
  /\ UNCHANGED <<first_build, args, appdata, out_dir, index2, open_streams, corpus, postings_flush_count, partition_posting_size,
                 path_to_id, url_to_id, buf, postings_count, partition_count, page_count,
                 partitions, simhashes, token_ranges, files, next_page, pc, error,
                 document_vectors>>

\* index.flush().
LegacyFlush ==
  /\ pc = "legacy"
  /\ index0' = LegacyFlushed(index0)
  /\ UNCHANGED <<first_build, args, appdata, out_dir, index2, open_streams, corpus, postings_flush_count, partition_posting_size,
                 path_to_id, url_to_id, buf, postings_count, partition_count, page_count,
                 partitions, simhashes, token_ranges, files, next_page, pc, error,
                 document_vectors, result>>

\* index[token]; a token the defaultdict does not hold yet is inserted with
\* an empty list.
LegacyGetItem ==
  /\ pc = "legacy"
  /\ \E token \in {"bee", "zoo"} :
       /\ result' = [op |-> "legacy_getitem", token |-> token,
                     postings |-> LegacyPostings(index0._internal, token)]
       /\ index0' = IF \E i \in 1..Len(index0._internal) : index0._internal[i].token = token
                    THEN index0
                    ELSE [index0 EXCEPT !._internal = Append(@, [token |-> token,
                                                                 postings |-> <<>>])]
  /\ UNCHANGED <<first_build, args, appdata, out_dir, index2, open_streams, corpus, postings_flush_count, partition_posting_size,
                 path_to_id, url_to_id, buf, postings_count, partition_count, page_count,
                 partitions, simhashes, token_ranges, files, next_page, pc, error,
                 document_vectors>>

\* InvertedIndex(): nothing in memory, no directory on disk.
InitLegacy ==
  /\ index0 = [disk_dir |-> "absent", _internal |-> <<>>, disk |-> <<>>, added |-> <<>>,
                memory_low_th |-> _FLUSH_MEMORY_THRESHOLD]
  /\ pc = "legacy"
  /\ next_page = 1
  /\ result = NoResult
  /\ corpus = <<>>
  /\ postings_flush_count = _DEFAULT_POSTINGS_FLUSH_COUNT
  /\ partition_posting_size = _DEFAULT_PARTITION_SIZE
  /\ path_to_id = <<>>
  /\ url_to_id = <<>>
  /\ buf = <<>>
  /\ postings_count = 0
  /\ partition_count = 0
  /\ page_count = 0
  /\ partitions = <<>>
  /\ simhashes = {}
  /\ token_ranges = <<>>
  /\ files = <<>>
  /\ error = ""
  /\ document_vectors = [keys |-> "int", vec |-> <<>>]
  /\ index2 = NoIndex2
  /\ open_streams = {}
  /\ args = DefaultArgs
  /\ appdata = NoAppData
  /\ out_dir = BuildingOutDir
  /\ first_build = NoBuild

NextLegacy ==
  \/ _set_memory_low_th
  \/ LegacyAdd
  \/ LegacyFlush
  \/ LegacyGetItem

SpecLegacy == InitLegacy /\ [][NextLegacy]_vars


\* ===================================================== reading cut files
MaxReadRecords == 2

ReadPosting(doc_id) ==
  [doc_id |-> doc_id, frequency |-> 1,
   tag_frequencies |-> [k \in TagKeys |-> IF k = "other" THEN 1 ELSE 0]]

\* Records of a run or partition file.
ReadRecords ==
  { WrittenRecord("ant", [df |-> 1, postings |-> <<ReadPosting(1)>>]),
    WrittenRecord("bee", [df |-> 2, postings |-> <<ReadPosting(1), ReadPosting(2)>>]) }

SecondRecord == WrittenRecord("cat", [df |-> 1, postings |-> <<ReadPosting(2)>>])

RECURSIVE RecordSeqs(_)
RecordSeqs(n) ==
  IF n = 0 THEN {<<>>}
  ELSE LET shorter == RecordSeqs(n - 1)
       IN shorter \cup {Append(c, r) : c \in {x \in shorter : Len(x) = n - 1}, r \in ReadRecords}

\* The ways a record can be cut short by the end of the file.
Cuts(record) ==
  {TruncatedRecord(record, cut, 0, FALSE) : cut \in {"token_len", "token", "entry_len"}}
  \cup {TruncatedRecord(record, "entry", kept, mid) :
          kept \in 0..Len(record.postings), mid \in BOOLEAN}

\* A file of whole records, or of whole records and a last one cut short.
CutFiles ==
  RecordSeqs(MaxReadRecords)
  \cup {Append(whole, last) : whole \in RecordSeqs(MaxReadRecords),
                              last \in UNION {Cuts(r) : r \in ReadRecords}}

\* The generator of items() before its first next().
NewItems == [op |-> "items", entries |-> <<>>, disk |-> 1, pos |-> 0, raised |-> ""]

\* One next() of list(index.items()): a pair is appended to the list, or the
\* generator ends (StopIteration) or raises.  While the generator stands at
\* its yield, inside `with open(disk, 'rb')`, the file it reads is open.
ReadItems ==
  /\ pc \in {"stored", "reading"}
  /\ LET g == IF pc = "stored" THEN NewItems ELSE result
         n == NextItem(files, partitions, g.disk, g.pos)
     IN /\ result' = [g EXCEPT !.entries = IF n.kind = "yield" THEN Append(@, n.item) ELSE @,
                               !.disk = n.disk, !.pos = n.pos,
                               !.raised = IF n.kind = "yield" THEN "" ELSE n.kind]
        /\ pc' = IF n.kind = "yield" THEN "reading" ELSE "read"
        /\ open_streams' = IF n.kind = "yield" THEN {partitions[n.disk]} ELSE {}
  /\ UNCHANGED <<first_build, args, appdata, out_dir, index2, index0, corpus, postings_flush_count, partition_posting_size,
                 path_to_id, url_to_id, buf, postings_count, partition_count, page_count,
                 partitions, simhashes, token_ranges, files, next_page, error,
                 document_vectors>>

\* A partition list of one file, or of two of which the second may be
\* missing on disk.
InitRead ==
  /\ \E content \in CutFiles :
       \/ /\ files = (PartitionPath("ant") :> content)
          /\ partitions \in {<<PartitionPath("ant")>>,
                             <<PartitionPath("ant"), PartitionPath("cat")>>}
       \/ /\ files = (PartitionPath("ant") :> content)
                       @@ (PartitionPath("cat") :> <<SecondRecord>>)
          /\ partitions = <<PartitionPath("ant"), PartitionPath("cat")>>
  /\ pc = "stored"
  /\ result = NoResult
  /\ corpus = <<>>
  /\ postings_flush_count = _DEFAULT_POSTINGS_FLUSH_COUNT
  /\ partition_posting_size = _DEFAULT_PARTITION_SIZE
  /\ path_to_id = <<>>
  /\ url_to_id = <<>>
  /\ buf = <<>>
  /\ postings_count = 0
  /\ partition_count = 0
  /\ page_count = 0
  /\ simhashes = {}
  /\ token_ranges = <<>>
  /\ next_page = 1
  /\ error = ""
  /\ document_vectors = [keys |-> "int", vec |-> <<>>]
  /\ index2 = NoIndex2
  /\ open_streams = {}
  /\ index0 = NoIndex0
  /\ args = DefaultArgs
  /\ appdata = NoAppData
  /\ out_dir = BuildingOutDir
  /\ first_build = NoBuild

NextRead == ReadItems

SpecRead == InitRead /\ [][NextRead]_vars


\* ============================================== a write error in _merge
\* What merged.bin holds after a write to it failed: whole records of those
\* _merge appends, followed or not by the beginning of the next one.
PartialWrites(out) ==
  UNION {{SubSeq(out, 1, k)} \cup {Append(SubSeq(out, 1, k), c) : c \in Cuts(out[k + 1])} :
           k \in 0..(Len(out) - 1)}

\* The directory after the failure: untouched, or with merged.bin extended
\* by what was written.
FailedWrites(fs, out) ==
  {fs} \cup {WriteFile(fs, merged_file, FileContent(fs, merged_file) \o written) :
               written \in PartialWrites(out)}

\* _merge() when writing merged.bin raises OSError: the run streams were all
\* opened by the first statement, _flush_idx_data's "with" closes merged.bin,
\* and the exception leaves _merge before the loop that closes the run
\* streams and before the run files are unlinked.  When the file cannot be
\* opened for appending the directory is left as it was; when the disk is
\* full the file has been created and holds what was written before.
MergeWriteError ==
  /\ pc = "merge"
  /\ MergeResult(files, partitions, postings_flush_count).wrote
  /\ files' \in FailedWrites(files, MergeResult(files, partitions, postings_flush_count).out)
  /\ open_streams' = open_streams \cup SeqRange(partitions)
  /\ pc' = "failed"
  /\ error' = "OSError"
  /\ UNCHANGED <<first_build, args, appdata, out_dir, index2, index0, corpus, postings_flush_count,
                 partition_posting_size, path_to_id, url_to_id, buf, postings_count,
                 partition_count, page_count, partitions, simhashes, token_ranges,
                 next_page, document_vectors, result>>

NextStreams ==
  \/ Next
  \/ MergeWriteError

SpecStreams == Init /\ [][NextStreams]_vars


\* Number of postings of document doc_id stored under token in the index.
RECURSIVE PostingsOf(_, _, _)
PostingsOf(items, token, doc_id) ==
  IF items = <<>> THEN 0
  ELSE (IF Head(items).token = token
        THEN Cardinality({i \in 1..Len(Head(items).token_entry.postings) :
                            Head(items).token_entry.postings[i].doc_id = doc_id})
        ELSE 0)
       + PostingsOf(Tail(items), token, doc_id)

PageTokens(page) ==
  {tokenize_JSON_file_with_tags(corpus[page].content)[i].token :
     i \in 1..Len(tokenize_JSON_file_with_tags(corpus[page].content))}

\* C1 (completeness): after a successful build every token the tokenizer
\* returns for a page has exactly one posting of that page in the final
\* partition files.
C1_Completeness ==
  Built => \A page \in 1..Len(corpus) : \A t \in PageTokens(page) :
             PostingsOf(Items(files, partitions), t, get_id(path_to_id, page)) = 1

\* Sum of the df values the run files hold for a token.
RECURSIVE RunDfSum(_, _, _)
RunDfSum(fs, runs, token) ==
  IF runs = <<>> THEN 0
  ELSE LET rs == ReadAll(FileContent(fs, Head(runs)), 1)
           hit == {i \in 1..Len(rs) : rs[i].token = token}
       IN (IF hit = {} THEN 0 ELSE rs[CHOOSE i \in hit : TRUE].token_entry.df)
          + RunDfSum(fs, Tail(runs), token)

\* C2 (df after merge): every entry _merge writes to merged.bin has df equal
\* to its number of postings and equal to the sum of the df values of the
\* run entries it was merged from.
C2_MergedDf ==
  [][(pc = "merge" /\ pc' = "partition") =>
       \A i \in 1..Len(FileContent(files', merged_file)) :
          LET r == FileContent(files', merged_file)[i]
          IN /\ r.df = Len(r.postings)
             /\ r.df = RunDfSum(files, partitions, r.token)]_vars

\* C3 (routing): index[t] returns the stored entry of every stored token t.
C3_Routing ==
  Built => \A i \in 1..Len(Items(files, partitions)) :
             LET it == Items(files, partitions)[i]
             IN GetItem(token_ranges, partitions, files, it.token)
                  = [raised |-> "", value |-> it.token_entry]

\* Postings of document doc_id held anywhere: buffer or files.
RecordsWith(records, doc_id) ==
  Cardinality({i \in 1..Len(records) :
                 \E k \in 1..Len(records[i].postings) : records[i].postings[k].doc_id = doc_id})

RECURSIVE FilesWith(_, _, _)
FilesWith(fs, paths, doc_id) ==
  IF paths = {} THEN 0
  ELSE LET p == CHOOSE x \in paths : TRUE
       IN RecordsWith(fs[p], doc_id) + FilesWith(fs, paths \ {p}, doc_id)

HeldPostings(doc_id) ==
  Cardinality({t \in DOMAIN buf : \E i \in 1..Len(buf[t].postings) :
                                     buf[t].postings[i].doc_id = doc_id})
  + FilesWith(files, DOMAIN files, doc_id)

IsRepeat(page) == \E earlier \in 1..(page - 1) : corpus[earlier].content = corpus[page].content

\* C4 (duplicate filter): a page whose HTML is identical to an earlier page
\* is skipped: it contributes no posting and is not counted in page_count.
C4_DuplicateSkipped ==
  /\ \A page \in 1..(next_page - 1) : IsRepeat(page) => HeldPostings(get_id(path_to_id, page)) = 0
  /\ page_count = Cardinality({page \in 1..(next_page - 1) : ~IsRepeat(page)})

\* C5 (ordering): the tokens of the final partition files, read in the order
\* of the partition list, are strictly increasing; each file is named after
\* its first token and the names are strictly ascending.
C5_Ordering ==
  Built =>
    /\ \A i \in 1..(Len(Items(files, partitions)) - 1) :
          StrLess(Items(files, partitions)[i].token, Items(files, partitions)[i + 1].token)
    /\ \A k \in 1..Len(partitions) :
          /\ files[partitions[k]] # <<>>
          /\ files[partitions[k]][1].token = partitions[k].key
          /\ \A j \in 1..(Len(files[partitions[k]]) - 1) :
                StrLess(files[partitions[k]][j].token, files[partitions[k]][j + 1].token)
    /\ \A k \in 1..(Len(partitions) - 1) : StrLess(partitions[k].key, partitions[k + 1].key)

C5_Witness ==
  /\ Built
  /\ Len(partitions) >= 2
  /\ \E k \in 1..Len(partitions) : Len(files[partitions[k]]) >= 2

\* The sorted (token, entry) pairs of a dict.
SortedItems(data) ==
  [i \in 1..Cardinality(DOMAIN data) |->
     [token |-> SortedTokens(DOMAIN data)[i], token_entry |-> data[SortedTokens(DOMAIN data)[i]]]]

\* C6 (round trip): reading back the run file written by the final flush
\* yields exactly the (token, entry) pairs of the flushed buffer, in
\* ascending token order.
C6_RoundTrip ==
  [][(pc = "build" /\ pc' = "merge") =>
       ReadAll(files'[RunPath(partition_count)], 1) = SortedItems(buf)]_vars

\* C7 (partition completes): when merged.bin holds entries, _partition does
\* not raise, writes every entry to a partition file and removes merged.bin.
C7_PartitionCompletes ==
  [][(pc = "partition" /\ merged_file \in DOMAIN files /\ pc' # pc) =>
       /\ pc' = "ranges"
       /\ merged_file \notin DOMAIN files'
       /\ merged_file \notin SeqRange(partitions')
       /\ Items(files', partitions') = ReadAll(files[merged_file], 1)]_vars

\* C8 (merge post-condition): after _merge the run files are gone and
\* merged.bin exists and is the only element of the partition list.
C8_MergedExists ==
  pc = "partition" =>
    /\ partitions = <<merged_file>>
    /\ DOMAIN files = {merged_file}

\* C9 (missing token): index[t] for a token that is not stored returns an
\* empty TokenEntry and does not raise, in an index that was built and in one
\* that was loaded from its directory.
C9_MissingToken ==
  (Built /\ result.op = "getitem" /\ result.item \notin StoredTokens) =>
     (result.raised = "" /\ result.value = EmptyEntry)

HasPosting(token, doc_id) == PostingsOf(Items(files, partitions), token, doc_id) >= 1

\* C10 (conjunctive filter): every document and URL that search returns has
\* a posting for every token of the processed query token set.
C10_Conjunctive ==
  (pc = "queryable" /\ result.op = "search" /\ result.raised = "") =>
     /\ \A i \in 1..Len(result.docs) :
           \A t \in _process_query(result.query) : HasPosting(t, result.docs[i])
     /\ \A i \in 1..Len(result.urls) :
           /\ result.urls[i] \in DOMAIN url_to_id
           /\ \A t \in _process_query(result.query) :
                 HasPosting(t, url_to_id[result.urls[i]])

\* A two-token query returned a URL while some other document holds only one
\* of the two tokens.
C10_Witness ==
  /\ pc = "queryable" /\ result.op = "search" /\ result.raised = ""
  /\ Cardinality(_process_query(result.query)) = 2
  /\ result.urls # <<>>
  /\ \E d \in 1..Len(corpus) : \E t1, t2 \in _process_query(result.query) :
        HasPosting(t1, d) /\ ~HasPosting(t2, d)


\* The cosine the re-ranking assigns to a document for the latest query.
CosineOf(doc_id) == Cosine(result.query, document_vectors.vec[doc_id])

\* Position of a document in a sequence of [doc, score] records.
RankIn(primary, doc_id) == CHOOSE k \in 1..Len(primary) : primary[k].doc = doc_id

\* The primary ranking of the latest query for one iteration order of the
\* query tokens.
PrimaryRanking(order) ==
  SortByScore(
    filtered_docs(ScoreTokens([ds |-> <<>>, raised |-> ""], order, token_ranges, partitions,
                              files, page_count).ds,
                  _process_query(result.query), order),
    <<>>)

\* C11 (top 50, re-ranking): search returns at most 50 documents, all among
\* the first 50 of the primary ranking (summed TF-IDF, descending), ordered
\* by descending cosine similarity, documents of equal cosine in the order
\* of their primary rank; the URLs are those of the documents, in order.
C11_TopFifty ==
  (pc = "queryable" /\ result.op = "search" /\ result.raised = "") =>
     /\ Len(result.docs) <= 50
     /\ Len(result.urls) <= 50
     /\ \E order \in Orderings(_process_query(result.query)) :
          LET primary == PrimaryRanking(order)
          IN /\ \A k \in 1..(Len(primary) - 1) :
                   ~FloatLess(primary[k].score, primary[k + 1].score)
             /\ \A i \in 1..Len(result.docs) :
                   \E k \in 1..Len(primary) : k <= 50 /\ primary[k].doc = result.docs[i]
             /\ \A i, j \in 1..Len(result.docs) :
                   i < j =>
                     /\ ~CosineLess(CosineOf(result.docs[i]), CosineOf(result.docs[j]))
                     /\ ~CosineLess(CosineOf(result.docs[j]), CosineOf(result.docs[i]))
                          => RankIn(primary, result.docs[i]) < RankIn(primary, result.docs[j])
     /\ result.urls = ResultUrls([i \in 1..Len(result.docs) |-> [doc |-> result.docs[i]]], url_to_id)

\* More than 50 documents pass the filter; 50 are returned, and the one left
\* out has a larger cosine than every returned document.
C11_Witness ==
  /\ pc = "queryable" /\ result.op = "search" /\ result.raised = ""
  /\ Len(result.docs) = 50
  /\ \E d \in 1..Len(corpus) :
        /\ HasPosting("ant", d) /\ result.query = <<"ant">>
        /\ \A i \in 1..Len(result.docs) :
              /\ result.docs[i] # d
              /\ CosineLess(CosineOf(result.docs[i]), CosineOf(d))
  /\ \E i, j \in 1..Len(result.docs) : i < j /\ result.docs[i] > result.docs[j]

\* C12 (empty query): search of an empty or whitespace-only query raises
\* nothing and returns an empty result list with a timing string.
C12_EmptyQuery ==
  (pc = "queryable" /\ result.op = "search" /\ result.query = <<>>) =>
     /\ result.raised = ""
     /\ result.urls = <<>>
     /\ result.search_time = <<0>>

\* The empty query was searched in an index that holds tokens of several
\* documents.
C12_Witness ==
  /\ pc = "queryable" /\ result.op = "search" /\ result.query = <<>>
  /\ StoredTokens # {}
  /\ page_count >= 2

\* C13: while a document is ingested, a flush follows the addition of a
\* posting exactly when the posting count has reached the threshold or the
\* available fraction of memory, (100 - percent) / 100, is below
\* min_avail_memory_perc; with enough memory available and the count below the
\* threshold no flush happens.
C13_MemoryFlush ==
  index2 # NoIndex2 =>
    \A i \in 1..Len(index2.add_log) :
      index2.add_log[i].flushed <=>
        \/ index2.add_log[i].postings >= index2.max_in_memory_postings
        \/ 100 - index2.add_log[i].percent < index2.min_avail_memory_perc

\* C14: with min_avail_memory_perc = 1.0 and a posting threshold too high to
\* be reached, a corpus that produces at least one posting has caused at
\* least one flush by the time _feedr has consumed it.
C14_FlushDuringIngest ==
  (/\ pc = "feed"
   /\ next_page > Len(corpus)
   /\ index2.min_avail_memory_perc = 100
   /\ index2.max_in_memory_postings = _DEF_FLUSH_POSTINGS_THRESHOLD
   /\ \E i \in 1..Len(corpus) : TokenFreqs(corpus[i].content) # <<>>)
  => index2.flush_calls >= 1

\* C15: once construct_mapping has ended, every .json file under the root has
\* its own DocID and the DocIDs are 1..n in discovery order; a file that is
\* not well-formed JSON, or whose url was seen before, is mapped too and does
\* not keep the files after it from being mapped.
C15_EveryFileMapped ==
  pc \in {"mapped", "failed"} =>
    /\ DOMAIN path_to_id = 1..Len(corpus)
    /\ \A p \in 1..Len(corpus) : path_to_id[p] = p

\* C16: once construct_mapping has ended, of several files carrying the same
\* url the first one discovered owns the url in url_to_id, and the later ones
\* are recorded in path_to_id all the same.
C16_FirstUrlWins ==
  pc \in {"mapped", "failed"} =>
    \A i, j \in 1..Len(corpus) :
      (/\ i < j
       /\ corpus[i].json = "object" /\ corpus[j].json = "object"
       /\ corpus[i].url # "" /\ corpus[i].url = corpus[j].url
       /\ \A k \in 1..(i - 1) : corpus[k].url # corpus[i].url)
      => /\ get_id_by_url(url_to_id, corpus[i].url) = i
         /\ get_id(path_to_id, j) = j

\* C17: get_id and get_id_by_url answer -1 for a path or url that is not
\* recorded, get_url_by_id answers "" for a DocID no url maps to, looking up
\* the DocID of a recorded url and then the url of that DocID gives the url
\* back, and no DocID is the value of two urls.
C17_Lookups ==
  result.op = "lookup" =>
    /\ result.path \notin DOMAIN path_to_id => result.get_id = -1
    /\ result.url \notin DOMAIN url_to_id => result.get_id_by_url = -1
    /\ (\A u \in DOMAIN url_to_id : url_to_id[u] # result.doc_id) => result.get_url_by_id = ""
    /\ result.url \in DOMAIN url_to_id => result.round_trip = result.url
    /\ \A u1, u2 \in DOMAIN url_to_id : url_to_id[u1] = url_to_id[u2] => u1 = u2

C17_Witness ==
  /\ result.op = "lookup"
  /\ Cardinality(DOMAIN url_to_id) = 2
  /\ result.url \in DOMAIN url_to_id
  /\ result.round_trip = result.url
  /\ result.doc_id \in DOMAIN path_to_id
  /\ result.get_url_by_id = ""
  /\ \E i \in 1..Len(corpus) : corpus[i].json = "malformed"

\* C18: the step that finalizes an InvertedIndex object removes the index
\* directory when persist is false, and when persist is true it leaves the
\* directory and every file in it as they were.
C18_Finalization ==
  [][(pc # "none" /\ pc' = "none") =>
       IF args.persist
       THEN files' = files /\ out_dir'.exists = out_dir.exists
       ELSE ~out_dir'.exists /\ files' = <<>>]_vars

\* C19: a construction that gets past the PathMapper goes into the build
\* pipeline exactly when load_existing is false or the index directory does
\* not exist; otherwise it leaves every index file as it was and takes the
\* .bin files of the directory as its partitions.
C19_LoadOrBuild ==
  [][(pc = "none" /\ pc' \notin {"none", "failed"}) =>
       /\ pc' = "build" <=> (~args'.load_existing \/ ~out_dir.exists)
       /\ (args'.load_existing /\ out_dir.exists) =>
            /\ pc' = "ranges"
            /\ files' = files
            /\ out_dir'.exists
            /\ Len(partitions') = Cardinality(DOMAIN files)
            /\ SeqRange(partitions') = DOMAIN files]_vars

C19_Witness ==
  /\ pc = "ranges"
  /\ args.load_existing
  /\ page_count = 0
  /\ Len(partitions) >= 2
  /\ SeqRange(partitions) = DOMAIN files

\* C20: every posting the builder holds has a frequency equal to the sum of
\* its seven tag frequencies, that sum is the number of occurrences of the
\* token in the text of the posting's document, and its "other" frequency is
\* not negative.
C20_FrequencyDecomposition ==
  \A token \in DOMAIN buf :
    \A i \in 1..Len(buf[token].postings) :
      LET posting == buf[token].postings[i]
      IN /\ posting.frequency = SumTagFreqs(posting.tag_frequencies)
         /\ SumTagFreqs(posting.tag_frequencies)
              = CountIn(TextTokens(corpus[posting.doc_id].content), token)
         /\ posting.tag_frequencies["other"] >= 0

\* C21: when the page build() is about to add holds a token whose
\* weighted-tag frequencies sum to more than its total frequency in the text,
\* the step raises the tokenizer's exception and ends the build without
\* adding or writing a posting; and no run file ever holds a posting whose
\* "other" frequency is negative.
C21_NegativeOtherAborts ==
  /\ [][(/\ pc = "build"
         /\ next_page <= Len(corpus)
         /\ ~_is_similar(simhashes, corpus[next_page].content)
         /\ \E i \in 1..Len(corpus[next_page].content) :
              LET token == Lemmatize(corpus[next_page].content[i].word)
              IN SumExplicit(corpus[next_page].content, ExplicitTags, token)
                   > CountIn(TextTokens(corpus[next_page].content), token))
        => (pc' = "failed" /\ error' = "Exception" /\ buf' = buf /\ files' = files)]_vars
  /\ [](\A path \in DOMAIN files :
          \A i \in 1..Len(files[path]) :
            \A j \in 1..Len(files[path][i].postings) :
              files[path][i].postings[j].tag_frequencies["other"] >= 0)

\* C22: every token tokenize yields is made of lowercase ASCII letters and
\* digits only and has at least two characters, so a one-character word of
\* the text yields no token.
C22_TokenShape ==
  result.op = "tokenize" =>
    \A i \in 1..Len(result.tokens) :
      /\ Len(result.tokens[i]) >= 2
      /\ \A k \in 1..Len(result.tokens[i]) :
           result.tokens[i][k] \in (48..57) \cup (97..122)

\* C23: the fingerprint of every text, a text without any token included,
\* has 16 bytes (128 bits), so the similarity score of any two fingerprints
\* is computed without an exception and is 1 - hamming / 128.
C23_SimhashWidth ==
  result.op = "similarity" =>
    /\ Len(result.hash1) = 128
    /\ Len(result.hash2) = 128
    /\ result.score.raised = ""
    /\ result.score.bits = 128
    /\ result.score.hamming = distance(result.hash1, result.hash2)

\* C24: iterating a file whose last record is cut short yields exactly the
\* whole records before the cut, each as it was written, and nothing built
\* from the cut record.
C24_TruncatedTail ==
  (result.op = "items" /\ result.raised = "StopIteration") =>
    LET content == IF Len(partitions) = 1 THEN files[partitions[1]]
                   ELSE files[partitions[1]] \o files[partitions[2]]
        whole == SelectSeq(content, LAMBDA r : "cut" \notin DOMAIN r)
    IN result.entries
         = [i \in 1..Len(whole) |->
              [token |-> whole[i].token,
               token_entry |-> [df |-> whole[i].df, postings |-> whole[i].postings]]]

\* C25: a build goes through ingest, final flush, merge and partition in that
\* order; until the merge the directory holds only the run files written so
\* far and no merged.bin, between merge and partition it holds nothing but
\* merged.bin, and once construction has returned it holds only final
\* partition files, each named after its first token, which are exactly the
\* files the partition list names.
C25_BuildPhases ==
  [][/\ pc = "build" => pc' \in {"build", "merge", "failed"}
     /\ (pc = "build" /\ pc' = "merge") => partition_count' = partition_count + 1
     /\ pc = "merge" => pc' = "partition"
     /\ pc = "partition" => pc' \in {"ranges", "failed"}
     /\ pc' \in {"build", "merge"}
          => DOMAIN files' = {RunPath(n) : n \in 0..(partition_count' - 1)}
     /\ pc' = "partition" => DOMAIN files' \subseteq {merged_file}
     /\ pc' \in {"ranges", "ready", "queryable"}
          => /\ DOMAIN files' = SeqRange(partitions')
             /\ Cardinality(DOMAIN files') = Len(partitions')
             /\ \A path \in DOMAIN files' :
                  /\ path.stem = "partition"
                  /\ files'[path] # <<>>
                  /\ path.key = files'[path][1].token]_vars

C25_Witness ==
  /\ pc = "ready"
  /\ postings_flush_count = 1
  /\ Len(corpus) >= 2
  /\ Len(partitions) >= 2

\* C26: two builds from the same root directory with the same arguments and
\* thresholds, the second by a later object of the same name while the saved
\* mapping is the one the first build left, end with the same partition
\* files holding the same tokens, each with the same df and the same
\* postings, whatever the order of the postings.
C26_Deterministic ==
  (/\ BuiltAnew
   /\ result = NoResult
   /\ first_build # NoBuild
   /\ corpus = first_build.corpus
   /\ args = first_build.args
   /\ appdata.mapper = first_build.mapper)
    => /\ SeqRange(partitions) = SeqRange(first_build.partitions)
       /\ DOMAIN files = DOMAIN first_build.files
       /\ BuiltEntries(files, partitions)
            = BuiltEntries(first_build.files, first_build.partitions)

\* A second build has returned, over a directory the first object left on
\* disk, with several partitions.
C26_Witness ==
  /\ BuiltAnew
  /\ result = NoResult
  /\ first_build # NoBuild
  /\ corpus = first_build.corpus
  /\ args = first_build.args
  /\ appdata.mapper = first_build.mapper
  /\ args.persist
  /\ ~args.load_existing
  /\ postings_flush_count = 1
  /\ Len(partitions) >= 2

\* C27: in a built index no entry holds two postings with the same doc_id,
\* and no entry holds more postings than pages were indexed.
C27_DistinctDocIds ==
  Built =>
    \A i \in 1..Len(Items(files, partitions)) :
      LET postings == Items(files, partitions)[i].token_entry.postings
      IN /\ \A j, k \in 1..Len(postings) : postings[j].doc_id = postings[k].doc_id => j = k
         /\ Len(postings) <= page_count

\* A built index, over a mapper loaded from a saved file, in which a token
\* has postings of two pages.
C27_Witness ==
  /\ Built
  /\ args.load_existing
  /\ page_count >= 2
  /\ \E i \in 1..Len(Items(files, partitions)) :
       Len(Items(files, partitions)[i].token_entry.postings) >= 2

\* C28: when a token has a posting that was flushed to disk and a posting
\* that was added afterwards and not flushed, retrieving the token returns
\* every posting added for it, each exactly once.
C28_CrossComponentRetrieval ==
  (/\ result.op = "legacy_getitem"
   /\ LegacyPostings(index0.disk, result.token) # <<>>
   /\ LegacyPostings(index0._internal, result.token) # <<>>
   /\ result.postings = LegacyPostings(index0._internal, result.token))
    => LET ForToken(a) == a.token = result.token
           added == SelectSeq(index0.added, ForToken)
       IN PostingBag(result.postings)
            = PostingBag([i \in 1..Len(added) |-> added[i].posting])

\* C29: every flush leaves the in-memory buffer empty and the in-memory
\* posting counter at zero. For a flush the threshold triggers inside
\* _add_page, the page's remaining postings follow it, so that at the end of
\* the page the buffer holds exactly the postings the counter counts, fewer
\* than the threshold and all of that page; after the final flush the buffer
\* is empty and the counter is zero.
C29_FlushResets ==
  [][/\ (pc = "build" /\ pc' = "build" /\ partition_count' > partition_count)
          => /\ postings_count' < postings_flush_count
             /\ postings_count'
                  = Cardinality(UNION {{<<token, i>> : i \in 1..Len(buf'[token].postings)} :
                                         token \in DOMAIN buf'})
             /\ \A token \in DOMAIN buf' : \A i \in 1..Len(buf'[token].postings) :
                  buf'[token].postings[i].doc_id = get_id(path_to_id, next_page)
     /\ (pc = "build" /\ pc' = "merge")
          => /\ partition_count' = partition_count + 1
             /\ buf' = EmptyMap
             /\ postings_count' = 0]_vars

\* The (token, posting) pairs of a sequence of (token, entry) items.
RECURSIVE EntryPairs(_)
EntryPairs(items) ==
  IF items = <<>> THEN <<>>
  ELSE [i \in 1..Len(Head(items).token_entry.postings) |->
          [token |-> Head(items).token, posting |-> Head(items).token_entry.postings[i]]]
       \o EntryPairs(Tail(items))

\* The (token, posting) pairs _add_page appended for the first n pages.
RECURSIVE AppendedPairs(_, _, _)
AppendedPairs(docs, p2i, n) ==
  IF n = 0 THEN <<>>
  ELSE LET items == tokenize_JSON_file_with_tags(docs[n].content)
       IN AppendedPairs(docs, p2i, n - 1)
          \o [i \in 1..Len(items) |->
                [token |-> items[i].token,
                 posting |-> [doc_id |-> get_id(p2i, n),
                              frequency |-> SumTagFreqs(items[i].tag_freqs),
                              tag_frequencies |-> items[i].tag_freqs]]]

\* C30: all through the ingest, the postings read from the run files
\* together with those of the buffer are, as a multiset, the postings appended
\* so far; a flush writes a run file of its own, partition_<N>.bin with the
\* next N, and leaves the run files written before it as they are.
C30_PostingConservation ==
  [][pc' \in {"build", "merge"} =>
       /\ partitions' = [i \in 1..partition_count' |-> RunPath(i - 1)]
       /\ DOMAIN files' = SeqRange(partitions')
       /\ \A path \in DOMAIN files : path \in DOMAIN files' /\ files'[path] = files[path]
       /\ PostingBag(EntryPairs(Items(files', partitions')) \o EntryPairs(SortedItems(buf')))
            = PostingBag(AppendedPairs(corpus, path_to_id, next_page' - 1))]_vars

\* C31: once _merge has run, merged.bin holds its records in strictly
\* ascending token order, hence every token once, whatever the batch limit
\* and the runs.
C31_MergedOnce ==
  (pc = "partition" /\ merged_file \in DOMAIN files)
    => \A i, j \in 1..Len(files[merged_file]) :
         i < j => StrLess(files[merged_file][i].token, files[merged_file][j].token)

C31_Witness ==
  /\ pc = "partition"
  /\ merged_file \in DOMAIN files
  /\ postings_flush_count = 1
  /\ Len(files[merged_file]) >= 2
  /\ \E i \in 1..Len(files[merged_file]) : Len(files[merged_file][i].postings) >= 2

\* C32: a _partition that ran over merged.bin leaves every record of
\* merged.bin in exactly one partition file, with the df and the postings it
\* had, and no partition file holds a token merged.bin did not hold.
C32_EntriesKept ==
  [][(pc = "partition" /\ merged_file \in DOMAIN files /\ pc' # pc) =>
       LET merged == files[merged_file]
           parts == DOMAIN files' \ {merged_file}
           Places(token) == {<<path, i>> \in parts \X (1..Len(merged)) :
                               i <= Len(files'[path]) /\ files'[path][i].token = token}
       IN /\ \A k \in 1..Len(merged) :
               /\ Cardinality(Places(merged[k].token)) = 1
               /\ \A place \in Places(merged[k].token) :
                    files'[place[1]][place[2]] = merged[k]
          /\ \A path \in parts :
               /\ Len(files'[path]) <= Len(merged)
               /\ \A i \in 1..Len(files'[path]) :
                    \E k \in 1..Len(merged) : merged[k].token = files'[path][i].token]_vars

C32_Witness ==
  /\ pc = "ranges"
  /\ Len(partitions) >= 2
  /\ \E k \in 1..Len(partitions) : Len(files[partitions[k]]) >= 2
  /\ \E k \in 1..Len(partitions) : \E i \in 1..Len(files[partitions[k]]) :
       Len(files[partitions[k]][i].postings) >= 2

\* C33: after _partition, no partition file is empty and each is named after
\* the smallest token it holds; every partition file but the last holds at
\* least partition_posting_size postings, and fewer than that without its
\* last entry.
C33_PartitionSizes ==
  [][(pc = "partition" /\ merged_file \in DOMAIN files /\ pc' # pc) =>
       LET parts == DOMAIN files' \ {merged_file}
           Postings(records) ==
             Cardinality({<<i, j>> \in (1..Len(records)) \X (1..(MaxDocs + 1)) :
                            j <= Len(records[i].postings)})
       IN \A path \in parts :
            LET records == files'[path]
            IN /\ records # <<>>
               /\ path.stem = "partition"
               /\ path.key = records[1].token
               /\ \A i \in 2..Len(records) : StrLess(path.key, records[i].token)
               /\ (\E later \in parts : StrLess(path.key, later.key))
                    => /\ Postings(records) >= partition_posting_size
                       /\ Postings(SubSeq(records, 1, Len(records) - 1))
                            < partition_posting_size]_vars

C33_Witness ==
  /\ pc = "ranges"
  /\ partition_posting_size >= 2
  /\ Len(partitions) >= 2
  /\ Len(files[partitions[1]]) >= 2

\* C34: between the pages of the ingest the buffer holds fewer postings
\* than postings_flush_count, as many as the counter says, and every run file
\* written so far holds exactly postings_flush_count postings: each flush
\* came with the posting that made the count reach the threshold, also in
\* the middle of a page.
C34_BufferBounded ==
  pc = "build" =>
    LET Held(entries) ==
          Cardinality({<<token, j>> \in (DOMAIN entries) \X (1..(MaxDocs + 1)) :
                         j <= Len(entries[token].postings)})
        Written(records) ==
          Cardinality({<<i, j>> \in (1..Len(records)) \X (1..(MaxDocs + 1)) :
                         j <= Len(records[i].postings)})
    IN /\ Held(buf) < postings_flush_count
       /\ Held(buf) = postings_count
       /\ \A path \in DOMAIN files : Written(files[path]) = postings_flush_count

C34_Witness ==
  /\ pc = "build"
  /\ next_page = 3
  /\ postings_flush_count = 3
  /\ partition_count = 1
  /\ buf # <<>>

\* C35: whenever merge, flush, partition or lookup has returned or raised,
\* no file it opened is still open, and no run file is unlinked while a
\* stream on it is open.
C35_StreamsClosed ==
  /\ open_streams = {}
  /\ \A path \in open_streams : path \in DOMAIN files

\* C36: an index object that loaded an existing directory answers index[item]
\* as the object that built the directory did, whose partition list names
\* the files in ascending order of their tokens, whatever order the listing
\* of the directory gave.
C36_LoadedLookup ==
  (/\ result.op = "getitem"
   /\ pc = "ready"
   /\ args.load_existing
   /\ page_count = 0)
    => LET keys == SortedTokens({path.key : path \in DOMAIN files})
           built_disks == [i \in 1..Len(keys) |-> PartitionPath(keys[i])]
           built_ranges == [i \in 1..Len(keys) |-> RoutingKey(built_disks[i], out_dir.name)]
           built == GetItem(built_ranges, built_disks, files, result.item)
       IN /\ result.raised = built.raised
          /\ result.value = built.value

\* The documents that contributed to the index: the doc_ids that hold a
\* posting in some file of the index directory.
ContributingDocs(fs) ==
  {doc_id \in 0..MaxDocs : FilesWith(fs, DOMAIN fs, doc_id) > 0}

\* C37: whenever the index can be queried, after a build as well as after a
\* load of an existing directory, page_count is the number of documents that
\* contributed to the index, so that idf = log(N / df) uses the true N; in
\* particular it is not below the number of documents that hold postings.
C37_PageCount ==
  (pc \in {"ready", "queryable"})
    => page_count >= Cardinality(ContributingDocs(files))

\* The documents that hold a posting for the token.
DocsWith(token) == {d \in 0..Len(corpus) : HasPosting(token, d)}

\* C38: for a one-word query w, search returns the URL of every indexed
\* document with a recorded URL that holds a posting for the lemmatized form
\* of w (when these documents fit in the first 50), also when lemmatizing
\* changes w: the expanded query token set does not make the filter reject a
\* document for lacking a surface form that the index cannot contain.
C38_OneWordRecall ==
  (/\ pc = "queryable"
   /\ result.op = "search"
   /\ result.raised = ""
   /\ Len(result.query) = 1
   /\ Cardinality(DocsWith(Lemmatize(Correction(result.query[1])))) <= TopK)
    => \A d \in DocsWith(Lemmatize(Correction(result.query[1]))) :
         \A url \in DOMAIN url_to_id :
           url_to_id[url] = d => \E i \in 1..Len(result.urls) : result.urls[i] = url


\* ================================================ pages that share a url
MaxUrlDocs == 3

\* Pages of different content of which two carry the same url and one has
\* an empty url.
UrlPages ==
  { [url |-> "u1", content |-> <<Seg("h1", "ant")>>],
    [url |-> "u1", content |-> <<Seg("other", "bee"), Seg("other", "ant")>>],
    [url |-> "", content |-> <<Seg("b", "ant"), Seg("other", "cat")>>],
    [url |-> "u4", content |-> <<Seg("other", "ant"), Seg("other", "U+0663")>>] }

RECURSIVE UrlCorpora(_)
UrlCorpora(n) ==
  IF n = 0 THEN {<<>>}
  ELSE LET shorter == UrlCorpora(n - 1)
       IN shorter \cup {Append(s, d) : s \in {x \in shorter : Len(x) = n - 1}, d \in UrlPages}

InitUrls ==
  /\ corpus \in UrlCorpora(MaxUrlDocs)
  /\ postings_flush_count = _DEFAULT_POSTINGS_FLUSH_COUNT
  /\ partition_posting_size = _DEFAULT_PARTITION_SIZE
  /\ path_to_id = ConstructPathToId(corpus)
  /\ url_to_id = ConstructUrlToId(corpus, 1, <<>>)
  /\ buf = <<>>
  /\ postings_count = 0
  /\ partition_count = 0
  /\ page_count = 0
  /\ partitions = <<>>
  /\ simhashes = {}
  /\ token_ranges = <<>>
  /\ files = <<>>
  /\ next_page = 1
  /\ pc = "build"
  /\ error = ""
  /\ document_vectors = [keys |-> "int", vec |-> <<>>]
  /\ result = NoResult
  /\ index2 = NoIndex2
  /\ open_streams = {}
  /\ index0 = NoIndex0
  /\ args \in BuildingArgs
  /\ appdata \in BuiltAppData(corpus)
  /\ out_dir = BuildingOutDir
  /\ first_build = NoBuild

SpecUrls == InitUrls /\ [][Next]_vars

\* The pages whose url is recorded for another, earlier page, or is empty.
WithoutUrl(page) ==
  \/ corpus[page].url = ""
  \/ \E earlier \in 1..(page - 1) : corpus[earlier].url = corpus[page].url

\* C39: search never returns the same URL twice and never an empty URL: a
\* DocID resolves to at most one URL, distinct DocIDs resolve to distinct
\* URLs, and a candidate whose DocID has no recorded URL (a later document
\* that shares the url of an earlier one) is left out of the result.
C39_DistinctUrls ==
  /\ \A u, v \in DOMAIN url_to_id : url_to_id[u] = url_to_id[v] => u = v
  /\ "" \notin DOMAIN url_to_id
  /\ (pc = "queryable" /\ result.op = "search" /\ result.raised = "") =>
       /\ \A i \in 1..Len(result.urls) : result.urls[i] # ""
       /\ \A i, j \in 1..Len(result.urls) : i # j => result.urls[i] # result.urls[j]
       /\ \A i \in 1..Len(result.docs) :
             WithoutUrl(result.docs[i]) =>
               \A k \in 1..Len(result.urls) : url_to_id[result.urls[k]] # result.docs[i]
       /\ Len(result.urls)
            = Cardinality({i \in 1..Len(result.docs) : ~WithoutUrl(result.docs[i])})

\* A search found three candidates: one with its own url, one that shares
\* the url of an earlier page and one with an empty url; one URL came back.
C39_Witness ==
  /\ pc = "queryable" /\ result.op = "search" /\ result.raised = ""
  /\ Len(result.docs) = 3
  /\ Len(result.urls) = 1
  /\ \E i, j \in 1..Len(result.docs) :
        /\ corpus[result.docs[i]].url = ""
        /\ corpus[result.docs[j]].url = result.urls[1]
        /\ url_to_id[result.urls[1]] # result.docs[j]


\* The postings _add has appended for the token over the pages first..last,
\* in the order of the additions.
RECURSIVE AddedPostings(_, _, _)
AddedPostings(token, first, last) ==
  IF first > last THEN <<>>
  ELSE LET freqs == TokenFreqs(corpus[first].content)
           mine == SelectSeq(freqs, LAMBDA e : e.token = token)
       IN [i \in 1..Len(mine) |-> Posting2(mine[i].freq)]
          \o AddedPostings(token, first + 1, last)

\* The postings a sequence of [token, postings] items holds for the token.
RECURSIVE HeldFor(_, _)
HeldFor(items, token) ==
  IF items = <<>> THEN <<>>
  ELSE (IF Head(items).token = token THEN Head(items).postings ELSE <<>>)
       \o HeldFor(Tail(items), token)

RECURSIVE InMemoryTotal(_)
InMemoryTotal(items) ==
  IF items = <<>> THEN 0 ELSE Len(Head(items).postings) + InMemoryTotal(Tail(items))

\* C40: in InvertedIndex2, after any sequence of _add and _flush calls, every
\* token is on at most one line of the file on disk, and the postings on disk
\* followed by those in memory are exactly the postings added so far; after
\* each _flush the in-memory map is empty and the posting counter is zero.
C40_Index2Flush ==
  index2 # NoIndex2 =>
    /\ \A i, j \in 1..Len(index2.temp_file) :
          i # j => index2.temp_file[i].token # index2.temp_file[j].token
    /\ \A token \in Words :
          HeldFor(index2.temp_file, token) \o HeldFor(index2._in_memory, token)
            = AddedPostings(token, 1, next_page - 1)
    /\ index2._curr_in_memory_postings = InMemoryTotal(index2._in_memory)
    /\ (\/ pc = "fed"
        \/ (index2.add_log # <<>> /\ index2.add_log[Len(index2.add_log)].flushed))
         => /\ index2._in_memory = <<>>
            /\ index2._curr_in_memory_postings = 0

\* A token already on a line of the file was added again and flushed into
\* that line, next to a token the file did not have.
C40_Witness ==
  /\ index2 # NoIndex2
  /\ pc = "feed"
  /\ index2.flush_calls >= 2
  /\ Len(index2.temp_file) >= 2
  /\ \E i \in 1..Len(index2.temp_file) : Len(index2.temp_file[i].postings) >= 2
  /\ index2.add_log # <<>> /\ index2.add_log[Len(index2.add_log)].flushed
====
